---------------------------- MODULE Spec2Model ----------------------------
(***************************************************************************)
(* Dendridraw: the Zustand tree store (mindmapStore.ts, the revision with  *)
(* rootIds, setNodePosition and undo/redo), the layout engine, the element *)
(* projector, the canvasSync helpers and the Canvas scene reconciler.      *)
(*                                                                         *)
(* Conventions of the translation                                          *)
(*  - a node id (a nanoid string) is a positive integer; Null (0) is the   *)
(*    JavaScript null, which is falsy like the code's `!node.parentId`;    *)
(*  - a JavaScript object used as a map (Record<string, MindmapNode>) is a *)
(*    sequence of node records in key insertion order, which is the order  *)
(*    Object.entries enumerates;                                           *)
(*  - metadata.createdAt / updatedAt (Date.now()) are not represented;     *)
(*  - coordinates are integers counting 1/Unit of a pixel, so that the     *)
(*    layout's midpoints and POSITION_EPSILON = 0.5 stay exact.            *)
(***************************************************************************)
EXTENDS Integers, Sequences, FiniteSets, TLC

(***************************************************************************)
(* Bounds of the model                                                     *)
(***************************************************************************)
\* number of ids nanoid hands out in one behaviour
MaxNodes == 3
\* number of store API calls in one behaviour of the store specifications
MaxOps == 5
\* number of ids nanoid hands out in one behaviour of the reconciler specifications
MaxSceneNodes == 2
\* number of key presses and host interactions of the user in one such behaviour
MaxUser == 3
\* number of elements the user selects at once
MaxSelected == 2
\* user interactions in a run of the editing specification (SpecEdit)
MaxEdit == 4
\* number of calls of the shortcut policy with one input
MaxCalls == 2
\* number of ids nanoid hands out while a forest for the layout engine is built
MaxForestNodes == 4
\* number of store API calls that build such a forest
MaxForestOps == 5
\* number of ids in a list of root ids handed to computeLayout directly
MaxRootArgs == 2
\* greatest id such a list names
MaxArgNodes == 4
\* number of store API calls that build the nodes record handed over with it
MaxArgOps == 5
\* number of scene writes and store calls the reconciler makes on its own, with
\* no input of the user in between, before the model stops it
MaxBurst == 6

(***************************************************************************)
(* Program constants                                                       *)
(***************************************************************************)
MAX_HISTORY_ENTRIES == 250
HORIZONTAL_GAP == 280
VERTICAL_GAP == 80
NODE_HEIGHT == 44

Null == 0
NoPos == <<>>
Unit == 2 * 2 * 2

\* a string is the sequence of its tokens: " " is a run of white space, any
\* other token a run of other characters
EmptyLabel == <<>>
CentralTopic == <<"Central", " ", "Topic">>
MindmapTree == <<"Mindmap", " ", "Tree">>

NodeIds == 1..MaxNodes

VARIABLES
    \* MindmapState (the Zustand store)
    rootIds, nodes, deletedNodes, selectedNodeId, focusBranchId,
    \* the store closure's history stacks
    past, future,
    \* the next id nanoid returns
    nextId,
    \* number of store API calls that changed the store (bounded by MaxOps)
    opCount,
    \* history of the run, for stating the claims:
    \*   lastOp      the last store API call (also one that changed nothing)
    \*   lastChange  the last call that changed the store, prevChange the one before
    \*   before      the observable store state before lastChange, before2 the one
    \*               before prevChange
    lastOp, lastChange, prevChange, before, before2,
    \* Canvas: the host API was handed over, the component's refs, the keyboard
    \* hook's module variable, the pending animation-frame callbacks
    api, latestSceneElementsRef, suppressOnChangeRef, knownManagedShapeIdsRef,
    isEditing, rafQueue,
    \* the scene host: its elements, selectedElementIds (keys in insertion
    \* order), editingTextElement (the id), a notification due for a write
    hostElements, hostSelection, hostEditing, echoPending,
    \* what the last step of the reconciler did, for stating the claims
    ev,
    \* a caller of the shortcut policy: the input it calls the policy with and
    \* what the calls made so far returned
    shortcutInput, shortcutResults,
    \* a caller of the layout engine and the projector: the forest (rootIds and
    \* nodes) it calls them with and what the calls made so far returned
    forest, layoutResults, descriptorResults

storeVars == <<rootIds, nodes, deletedNodes, selectedNodeId, focusBranchId, past, future>>
ghostVars == <<lastOp, lastChange, prevChange, before, before2>>
canvasVars == <<api, latestSceneElementsRef, suppressOnChangeRef, knownManagedShapeIdsRef,
                isEditing, rafQueue, hostElements, hostSelection, hostEditing,
                echoPending, ev>>
policyVars == <<shortcutInput, shortcutResults>>
engineVars == <<forest, layoutResults, descriptorResults>>
vars == <<rootIds, nodes, deletedNodes, selectedNodeId, focusBranchId, past, future,
          nextId, opCount, lastOp, lastChange, prevChange, before, before2,
          api, latestSceneElementsRef, suppressOnChangeRef, knownManagedShapeIdsRef,
          isEditing, rafQueue, hostElements, hostSelection, hostEditing,
          echoPending, ev, shortcutInput, shortcutResults,
          forest, layoutResults, descriptorResults>>

\* F applied to the value of v, which is computed once
Eval(v, F(_)) == CHOOSE r \in {F(x) : x \in {v}} : TRUE

(***************************************************************************)
(* JavaScript objects as ordered maps                                      *)
(***************************************************************************)
Keys(m) == {m[i].id : i \in DOMAIN m}

Has(m, id) == \E i \in DOMAIN m : m[i].id = id

Get(m, id) == m[CHOOSE i \in DOMAIN m : m[i].id = id]

\* { ...m, [id]: v }: an existing key keeps its place, a new key is appended
Put(m, id, v) ==
    IF Has(m, id)
    THEN [i \in DOMAIN m |-> IF m[i].id = id THEN v ELSE m[i]]
    ELSE Append(m, v)

\* delete m[id]
Del(m, id) == SelectSeq(m, LAMBDA e : e.id # id)

\* array.filter((x) => x !== id)
Without(seq, id) == SelectSeq(seq, LAMBDA x : x # id)

\* array.includes(id)
Includes(seq, id) == \E i \in DOMAIN seq : seq[i] = id

\* array.indexOf(id), 0-based, -1 when absent
IndexOf(seq, id) ==
    IF Includes(seq, id)
    THEN (CHOOSE i \in DOMAIN seq : seq[i] = id /\ \A j \in 1..(i - 1) : seq[j] # id) - 1
    ELSE -1

\* array.splice(at, 0, x) on a copy; a negative or too large index is clamped
InsertAt(seq, at, x) ==
    LET k == IF at < 0 THEN 0 ELSE IF at > Len(seq) THEN Len(seq) ELSE at
    IN SubSeq(seq, 1, k) \o <<x>> \o SubSeq(seq, k + 1, Len(seq))

(***************************************************************************)
(* The store                                                               *)
(***************************************************************************)
createNode(id, label, parentId) ==
    [id |-> id, label |-> label, parentId |-> parentId, childrenIds |-> <<>>,
     type |-> "topic", collapsed |-> FALSE, position |-> NoPos]

\* the store state a call works on: MindmapState and the two stacks
StoreState ==
    [rootIds |-> rootIds, nodes |-> nodes, deletedNodes |-> deletedNodes,
     selectedNodeId |-> selectedNodeId, focusBranchId |-> focusBranchId,
     past |-> past, future |-> future]

snapshotFromState(S) ==
    [rootIds |-> S.rootIds, nodes |-> S.nodes, deletedNodes |-> S.deletedNodes,
     selectedNodeId |-> S.selectedNodeId, focusBranchId |-> S.focusBranchId]

\* zustand's set(partial): the fields of the patch replace those of the state
Merge(S, patch) ==
    [f \in DOMAIN S |-> IF f \in DOMAIN patch THEN patch[f] ELSE S[f]]

NoPatch == [noPatch |-> TRUE]

\* past.push(snapshot); if (past.length > MAX_HISTORY_ENTRIES) past.shift()
\* mutant: nothing is ever dropped from the stack
PushPastUnbounded(stack, snap) == Append(stack, snap)

PushPast(stack, snap) ==
    LET pushed == Append(stack, snap)
    IN IF Len(pushed) > MAX_HISTORY_ENTRIES THEN Tail(pushed) ELSE pushed

\* mutant: a committing operation leaves the redo stack as it is
applyPatchKeepingFuture(S, patch) ==
    IF patch = NoPatch
    THEN S
    ELSE Merge([S EXCEPT !.past = PushPast(S.past, snapshotFromState(S))], patch)

applyPatchWithHistory(S, patch) ==
    IF patch = NoPatch
    THEN S
    ELSE Merge([S EXCEPT !.past = PushPast(S.past, snapshotFromState(S)),
                         !.future = <<>>],
               patch)

\* parentChildrenIndex.get(parentId) || []: the keys whose node names parentId
\* as its parent, in Object.entries order
IndexedChildren(m, parentId) ==
    LET kids == SelectSeq(m, LAMBDA e : e.parentId # Null /\ e.parentId = parentId)
    IN [i \in DOMAIN kids |-> kids[i].id]

RECURSIVE CollectLoop(_, _, _, _)
CollectLoop(stack, visited, result, m) ==
    IF stack = <<>>
    THEN result
    ELSE LET currentId == stack[Len(stack)]
             rest == SubSeq(stack, 1, Len(stack) - 1)
         IN IF currentId \in visited \/ ~Has(m, currentId)
            THEN CollectLoop(rest, visited, result, m)
            ELSE LET node == Get(m, currentId)
                     seen == visited \cup {currentId}
                     viaChildren == SelectSeq(node.childrenIds, LAMBDA c : c \notin seen)
                     viaParent == SelectSeq(IndexedChildren(m, currentId),
                                            LAMBDA c : c \notin seen)
                 IN CollectLoop(rest \o viaChildren \o viaParent, seen,
                                Append(result, currentId), m)

\* mutant: a traversal that follows childrenIds only (no reverse parent index)
RECURSIVE CollectChildrenOnly(_, _, _, _)
CollectChildrenOnly(stack, visited, result, m) ==
    IF stack = <<>>
    THEN result
    ELSE LET currentId == stack[Len(stack)]
             rest == SubSeq(stack, 1, Len(stack) - 1)
         IN IF currentId \in visited \/ ~Has(m, currentId)
            THEN CollectChildrenOnly(rest, visited, result, m)
            ELSE LET seen == visited \cup {currentId}
                     viaChildren == SelectSeq(Get(m, currentId).childrenIds,
                                              LAMBDA c : c \notin seen)
                 IN CollectChildrenOnly(rest \o viaChildren, seen,
                                        Append(result, currentId), m)

collectSubtreeChildrenOnly(nodeId, m) == CollectChildrenOnly(<<nodeId>>, {}, <<>>, m)

collectSubtree(nodeId, m) == CollectLoop(<<nodeId>>, {}, <<>>, m)

initRoot(S, id, label) ==
    LET root == createNode(id, label, Null)
    IN applyPatchWithHistory(S,
        [rootIds |-> Append(S.rootIds, root.id),
         nodes |-> Put(S.nodes, root.id, root),
         selectedNodeId |-> root.id])

\* mutant: the parent stays collapsed when it was
addChildKeepingCollapsed(S, id, parentId, label) ==
    LET child == createNode(id, label, parentId)
    IN applyPatchWithHistory(S,
        IF ~Has(S.nodes, parentId)
        THEN NoPatch
        ELSE LET parent == Get(S.nodes, parentId)
             IN [nodes |-> Put(Put(S.nodes, parentId,
                                   [parent EXCEPT !.childrenIds = Append(@, child.id)]),
                               child.id, child),
                 selectedNodeId |-> child.id])

addChild(S, id, parentId, label) ==
    LET child == createNode(id, label, parentId)
    IN applyPatchWithHistory(S,
        IF ~Has(S.nodes, parentId)
        THEN NoPatch
        ELSE LET parent == Get(S.nodes, parentId)
             IN [nodes |-> Put(Put(S.nodes, parentId,
                                   [parent EXCEPT !.childrenIds = Append(@, child.id),
                                                  !.collapsed = FALSE]),
                               child.id, child),
                 selectedNodeId |-> child.id])

\* mutant: only an absent node is refused
addSiblingRefusedAbsentOnly(S, siblingId) == ~Has(S.nodes, siblingId)

\* whether addSibling returns before it creates a node
addSiblingRefused(S, siblingId) ==
    ~Has(S.nodes, siblingId) \/ Get(S.nodes, siblingId).parentId = Null

\* the id addSibling returns: the node it was called with, or the new node's
addSiblingReturn(S, id, siblingId) ==
    IF addSiblingRefused(S, siblingId) THEN siblingId ELSE id

addSibling(S, id, siblingId, label) ==
    IF addSiblingRefused(S, siblingId)
    THEN S
    ELSE LET sibling == Get(S.nodes, siblingId)
             newNode == createNode(id, label, sibling.parentId)
         IN applyPatchWithHistory(S,
             IF ~Has(S.nodes, sibling.parentId)
             THEN NoPatch
             ELSE LET parent == Get(S.nodes, sibling.parentId)
                      idx == IndexOf(parent.childrenIds, siblingId)
                      newChildren == InsertAt(parent.childrenIds, idx + 1, newNode.id)
                  IN [nodes |-> Put(Put(S.nodes, sibling.parentId,
                                        [parent EXCEPT !.childrenIds = newChildren]),
                                    newNode.id, newNode),
                      selectedNodeId |-> newNode.id])

\* mutant: the label is stored, and a snapshot pushed, also when it is the same
updateLabelAlways(S, nodeId, label) ==
    applyPatchWithHistory(S,
        IF ~Has(S.nodes, nodeId)
        THEN NoPatch
        ELSE [nodes |-> Put(S.nodes, nodeId,
                            [Get(S.nodes, nodeId) EXCEPT !.label = label])])

updateLabel(S, nodeId, label) ==
    applyPatchWithHistory(S,
        IF ~Has(S.nodes, nodeId) \/ Get(S.nodes, nodeId).label = label
        THEN NoPatch
        ELSE [nodes |-> Put(S.nodes, nodeId,
                            [Get(S.nodes, nodeId) EXCEPT !.label = label])])

RECURSIVE MoveAll(_, _, _)
RECURSIVE MoveAllKeeping(_, _, _)
\* mutant: the listed keys are copied to `to` and stay in `from`
MoveAllKeeping(ids, from, to) ==
    IF ids = <<>>
    THEN [from |-> from, to |-> to]
    ELSE IF ~Has(from, Head(ids))
         THEN MoveAllKeeping(Tail(ids), from, to)
         ELSE MoveAllKeeping(Tail(ids), from, Put(to, Head(ids), Get(from, Head(ids))))

\* the loop "for (const id of subtreeIds)" of deleteNode and restoreNode:
\* every listed key of `from` moves to `to`
MoveAll(ids, from, to) ==
    IF ids = <<>>
    THEN [from |-> from, to |-> to]
    ELSE IF ~Has(from, Head(ids))
         THEN MoveAll(Tail(ids), from, to)
         ELSE MoveAll(Tail(ids), Del(from, Head(ids)),
                      Put(to, Head(ids), Get(from, Head(ids))))

Last(seq) == seq[Len(seq)]

\* mutant: a deleted root stays in rootIds
deleteNodeKeepingRoot(S, nodeId) ==
    IF ~Has(S.nodes, nodeId)
    THEN S
    ELSE LET subtreeIds == collectSubtree(nodeId, S.nodes)
             node == Get(S.nodes, nodeId)
             detached ==
                 IF node.parentId # Null /\ Has(S.nodes, node.parentId)
                 THEN Put(S.nodes, node.parentId,
                          [Get(S.nodes, node.parentId) EXCEPT
                              !.childrenIds = Without(@, nodeId)])
                 ELSE S.nodes
             moved == MoveAll(subtreeIds, detached, S.deletedNodes)
             remainingRoots == Without(S.rootIds, nodeId)
             newSelected ==
                 IF S.selectedNodeId # Null /\ Includes(subtreeIds, S.selectedNodeId)
                 THEN IF node.parentId # Null
                      THEN node.parentId
                      ELSE IF remainingRoots # <<>> THEN Last(remainingRoots) ELSE Null
                 ELSE S.selectedNodeId
         IN applyPatchWithHistory(S,
             [rootIds |-> S.rootIds,
              nodes |-> moved.from,
              deletedNodes |-> moved.to,
              selectedNodeId |-> newSelected])

\* mutant: with no parent to fall back on, the first remaining root is selected
deleteNodeSelectingFirstRoot(S, nodeId) ==
    IF ~Has(S.nodes, nodeId)
    THEN S
    ELSE LET subtreeIds == collectSubtree(nodeId, S.nodes)
             node == Get(S.nodes, nodeId)
             detached ==
                 IF node.parentId # Null /\ Has(S.nodes, node.parentId)
                 THEN Put(S.nodes, node.parentId,
                          [Get(S.nodes, node.parentId) EXCEPT
                              !.childrenIds = Without(@, nodeId)])
                 ELSE S.nodes
             moved == MoveAll(subtreeIds, detached, S.deletedNodes)
             remainingRoots == Without(S.rootIds, nodeId)
             newSelected ==
                 IF S.selectedNodeId # Null /\ Includes(subtreeIds, S.selectedNodeId)
                 THEN IF node.parentId # Null
                      THEN node.parentId
                      ELSE IF remainingRoots # <<>> THEN Head(remainingRoots) ELSE Null
                 ELSE S.selectedNodeId
         IN applyPatchWithHistory(S,
             [rootIds |-> IF node.parentId = Null THEN Without(S.rootIds, nodeId)
                          ELSE S.rootIds,
              nodes |-> moved.from,
              deletedNodes |-> moved.to,
              selectedNodeId |-> newSelected])

deleteNode(S, nodeId) ==
    IF ~Has(S.nodes, nodeId)
    THEN S
    ELSE LET subtreeIds == collectSubtree(nodeId, S.nodes)
             node == Get(S.nodes, nodeId)
             detached ==
                 IF node.parentId # Null /\ Has(S.nodes, node.parentId)
                 THEN Put(S.nodes, node.parentId,
                          [Get(S.nodes, node.parentId) EXCEPT
                              !.childrenIds = Without(@, nodeId)])
                 ELSE S.nodes
             moved == MoveAll(subtreeIds, detached, S.deletedNodes)
             remainingRoots == Without(S.rootIds, nodeId)
             newSelected ==
                 IF S.selectedNodeId # Null /\ Includes(subtreeIds, S.selectedNodeId)
                 THEN IF node.parentId # Null
                      THEN node.parentId
                      ELSE IF remainingRoots # <<>> THEN Last(remainingRoots) ELSE Null
                 ELSE S.selectedNodeId
         IN applyPatchWithHistory(S,
             [rootIds |-> IF node.parentId = Null THEN Without(S.rootIds, nodeId)
                          ELSE S.rootIds,
              nodes |-> moved.from,
              deletedNodes |-> moved.to,
              selectedNodeId |-> newSelected])

\* mutant: the restored node is not re-attached to its parent
restoreNodeDetached(S, nodeId) ==
    applyPatchWithHistory(S,
        IF ~Has(S.deletedNodes, nodeId)
        THEN NoPatch
        ELSE LET node == Get(S.deletedNodes, nodeId)
                 moved == MoveAll(collectSubtree(nodeId, S.deletedNodes),
                                  S.deletedNodes, S.nodes)
                 shouldAddRoot == node.parentId = Null /\ ~Includes(S.rootIds, nodeId)
             IN [rootIds |-> IF shouldAddRoot THEN Append(S.rootIds, nodeId)
                             ELSE S.rootIds,
                 nodes |-> moved.to,
                 deletedNodes |-> moved.from])

\* mutant: the restored node is put first in its parent's list and in rootIds
restoreNodeInFront(S, nodeId) ==
    applyPatchWithHistory(S,
        IF ~Has(S.deletedNodes, nodeId)
        THEN NoPatch
        ELSE LET node == Get(S.deletedNodes, nodeId)
                 subtreeIds == collectSubtree(nodeId, S.deletedNodes)
                 moved == MoveAll(subtreeIds, S.deletedNodes, S.nodes)
                 newNodes ==
                     IF node.parentId # Null /\ Has(moved.to, node.parentId)
                        /\ ~Includes(Get(moved.to, node.parentId).childrenIds, nodeId)
                     THEN Put(moved.to, node.parentId,
                              [Get(moved.to, node.parentId) EXCEPT
                                  !.childrenIds = <<nodeId>> \o @])
                     ELSE moved.to
                 shouldAddRoot == node.parentId = Null /\ ~Includes(S.rootIds, nodeId)
             IN [rootIds |-> IF shouldAddRoot THEN <<nodeId>> \o S.rootIds
                             ELSE S.rootIds,
                 nodes |-> newNodes,
                 deletedNodes |-> moved.from])

restoreNode(S, nodeId) ==
    applyPatchWithHistory(S,
        IF ~Has(S.deletedNodes, nodeId)
        THEN NoPatch
        ELSE LET node == Get(S.deletedNodes, nodeId)
                 subtreeIds == collectSubtree(nodeId, S.deletedNodes)
                 moved == MoveAll(subtreeIds, S.deletedNodes, S.nodes)
                 newNodes ==
                     IF node.parentId # Null /\ Has(moved.to, node.parentId)
                        /\ ~Includes(Get(moved.to, node.parentId).childrenIds, nodeId)
                     THEN Put(moved.to, node.parentId,
                              [Get(moved.to, node.parentId) EXCEPT
                                  !.childrenIds = Append(@, nodeId)])
                     ELSE moved.to
                 shouldAddRoot == node.parentId = Null /\ ~Includes(S.rootIds, nodeId)
             IN [rootIds |-> IF shouldAddRoot THEN Append(S.rootIds, nodeId)
                             ELSE S.rootIds,
                 nodes |-> newNodes,
                 deletedNodes |-> moved.from])

toggleCollapse(S, nodeId) ==
    applyPatchWithHistory(S,
        IF ~Has(S.nodes, nodeId) \/ Len(Get(S.nodes, nodeId).childrenIds) = 0
        THEN NoPatch
        ELSE [nodes |-> Put(S.nodes, nodeId,
                            [Get(S.nodes, nodeId) EXCEPT !.collapsed = ~@])])

\* mutant: the selection is committed like a tree edit
selectNodeWithHistory(S, nodeId) ==
    applyPatchWithHistory(S, [selectedNodeId |-> nodeId])

selectNode(S, nodeId) == Merge(S, [selectedNodeId |-> nodeId])

setNodeType(S, nodeId, type) ==
    applyPatchWithHistory(S,
        IF ~Has(S.nodes, nodeId) \/ Get(S.nodes, nodeId).type = type
        THEN NoPatch
        ELSE [nodes |-> Put(S.nodes, nodeId,
                            [Get(S.nodes, nodeId) EXCEPT !.type = type])])

setNodePosition(S, nodeId, position) ==
    applyPatchWithHistory(S,
        IF ~Has(S.nodes, nodeId) \/ Get(S.nodes, nodeId).position = position
        THEN NoPatch
        ELSE [nodes |-> Put(S.nodes, nodeId,
                            [Get(S.nodes, nodeId) EXCEPT !.position = position])])

\* mutant: the snapshot is applied without its selection
undoKeepingSelection(S) ==
    IF S.past = <<>>
    THEN S
    ELSE Merge([S EXCEPT !.past = SubSeq(S.past, 1, Len(S.past) - 1),
                         !.future = Append(S.future, snapshotFromState(S))],
               [rootIds |-> Last(S.past).rootIds, nodes |-> Last(S.past).nodes,
                deletedNodes |-> Last(S.past).deletedNodes])

undo(S) ==
    IF S.past = <<>>
    THEN S
    ELSE Merge([S EXCEPT !.past = SubSeq(S.past, 1, Len(S.past) - 1),
                         !.future = Append(S.future, snapshotFromState(S))],
               Last(S.past))

redo(S) ==
    IF S.future = <<>>
    THEN S
    ELSE Merge([S EXCEPT !.future = SubSeq(S.future, 1, Len(S.future) - 1),
                         !.past = PushPast(S.past, snapshotFromState(S))],
               Last(S.future))

clearHistory(S) == [S EXCEPT !.past = <<>>, !.future = <<>>]

(***************************************************************************)
(* The layout engine (layout.ts)                                           *)
(***************************************************************************)
\* a LayoutMap is a function from the positioned node ids to <<x, y>>
NoLayout == [id \in {} |-> NoPos]

normalizeRootIds(rootIdsOrRootId) == SelectSeq(rootIdsOrRootId, LAMBDA id : id # Null)

\* the two loops that build orderedRootIds: the listed roots that are live and
\* parentless, once each, then every other parentless node in Object.entries order
RECURSIVE ListedRoots(_, _, _)
ListedRoots(ids, m, ordered) ==
    IF ids = <<>>
    THEN ordered
    ELSE LET rootId == Head(ids)
         IN IF ~Includes(ordered, rootId) /\ Has(m, rootId)
               /\ Get(m, rootId).parentId = Null
            THEN ListedRoots(Tail(ids), m, Append(ordered, rootId))
            ELSE ListedRoots(Tail(ids), m, ordered)

RECURSIVE ImplicitRoots(_, _, _)
ImplicitRoots(m, i, ordered) ==
    IF i > Len(m)
    THEN ordered
    ELSE IF m[i].parentId # Null \/ Includes(ordered, m[i].id)
         THEN ImplicitRoots(m, i + 1, ordered)
         ELSE ImplicitRoots(m, i + 1, Append(ordered, m[i].id))

orderedRootIds(ids, m) == ImplicitRoots(m, 1, ListedRoots(ids, m, <<>>))

RECURSIVE layoutNode(_, _, _, _)
RECURSIVE LayoutEach(_, _, _, _)
\* mutant: the children of a collapsed node are laid out like any others
layoutNodeIgnoringCollapsed(m, nodeId, depth, st) ==
    IF ~Has(m, nodeId)
    THEN st
    ELSE LET node == Get(m, nodeId)
             x == depth * HORIZONTAL_GAP * Unit
             visibleChildren == SelectSeq(node.childrenIds, LAMBDA id : Has(m, id))
         IN IF Len(visibleChildren) = 0
            THEN [positions |-> (nodeId :> <<x, st.yOffset>>) @@ st.positions,
                  yOffset |-> st.yOffset + (NODE_HEIGHT + VERTICAL_GAP) * Unit]
            ELSE LET firstChildY == st.yOffset
                     done == LayoutEach(m, visibleChildren, depth + 1, st)
                     lastChildY == done.positions[Last(visibleChildren)][2]
                 IN [positions |->
                        (nodeId :> <<x, (firstChildY + lastChildY) \div 2>>)
                            @@ done.positions,
                     yOffset |-> done.yOffset]

\* mutant: a leaf moves the cursor by the gap only, not by the node's height
layoutNodeGapOnly(m, nodeId, depth, st) ==
    IF ~Has(m, nodeId)
    THEN st
    ELSE LET node == Get(m, nodeId)
             x == depth * HORIZONTAL_GAP * Unit
             visibleChildren ==
                 IF node.collapsed THEN <<>>
                 ELSE SelectSeq(node.childrenIds, LAMBDA id : Has(m, id))
         IN IF Len(visibleChildren) = 0
            THEN [positions |-> (nodeId :> <<x, st.yOffset>>) @@ st.positions,
                  yOffset |-> st.yOffset + VERTICAL_GAP * Unit]
            ELSE LET firstChildY == st.yOffset
                     done == LayoutEach(m, visibleChildren, depth + 1, st)
                     lastChildY == done.positions[Last(visibleChildren)][2]
                 IN [positions |->
                        (nodeId :> <<x, (firstChildY + lastChildY) \div 2>>)
                            @@ done.positions,
                     yOffset |-> done.yOffset]

\* layoutNode and its loop over the visible children; st holds the closure's
\* positions and yOffset
layoutNode(m, nodeId, depth, st) ==
    IF ~Has(m, nodeId)
    THEN st
    ELSE LET node == Get(m, nodeId)
             x == depth * HORIZONTAL_GAP * Unit
             visibleChildren ==
                 IF node.collapsed THEN <<>>
                 ELSE SelectSeq(node.childrenIds, LAMBDA id : Has(m, id))
         IN IF Len(visibleChildren) = 0
            THEN [positions |-> (nodeId :> <<x, st.yOffset>>) @@ st.positions,
                  yOffset |-> st.yOffset + (NODE_HEIGHT + VERTICAL_GAP) * Unit]
            ELSE LET firstChildY == st.yOffset
                     done == LayoutEach(m, visibleChildren, depth + 1, st)
                     lastChildY == done.positions[Last(visibleChildren)][2]
                 IN [positions |->
                        (nodeId :> <<x, (firstChildY + lastChildY) \div 2>>)
                            @@ done.positions,
                     yOffset |-> done.yOffset]

LayoutEach(m, ids, depth, st) ==
    IF ids = <<>>
    THEN st
    ELSE LayoutEach(m, Tail(ids), depth, layoutNode(m, Head(ids), depth, st))

\* mutant: the stored position is added to the computed one
applyOverridesOffset(m, positions) ==
    [id \in DOMAIN positions |->
        IF Has(m, id) /\ Get(m, id).position # NoPos
        THEN <<positions[id][1] + Get(m, id).position[1],
               positions[id][2] + Get(m, id).position[2]>>
        ELSE positions[id]]

\* the final loop: a stored position replaces the computed one of a placed node
applyOverrides(m, positions) ==
    [id \in DOMAIN positions |->
        IF Has(m, id) /\ Get(m, id).position # NoPos
        THEN Get(m, id).position
        ELSE positions[id]]

\* mutant: every root is laid out with a vertical cursor of its own
RECURSIVE LayoutEachFromZero(_, _, _)
LayoutEachFromZero(m, ids, positions) ==
    IF ids = <<>>
    THEN positions
    ELSE LayoutEachFromZero(m, Tail(ids),
             layoutNode(m, Head(ids), 0, [positions |-> positions, yOffset |-> 0]).positions)

computeLayoutOwnCursors(rootIdsOrRootId, m) ==
    LET ids == normalizeRootIds(rootIdsOrRootId)
        roots == orderedRootIds(ids, m)
    IN IF Len(ids) = 0 \/ Len(roots) = 0
       THEN NoLayout
       ELSE applyOverrides(m, LayoutEachFromZero(m, roots, NoLayout))

computeLayout(rootIdsOrRootId, m) ==
    LET ids == normalizeRootIds(rootIdsOrRootId)
        roots == orderedRootIds(ids, m)
    IN IF Len(ids) = 0 \/ Len(roots) = 0
       THEN NoLayout
       ELSE applyOverrides(m,
                LayoutEach(m, roots, 0, [positions |-> NoLayout, yOffset |-> 0]).positions)

(***************************************************************************)
(* Scene elements                                                          *)
(*  - an element id is a tuple whose first component is the id's prefix:   *)
(*    <<"shape-", n>> is `shape-${n}`, <<"arrow-", p, c>> is               *)
(*    `arrow-${p}-${c}`; the ids the host generates carry another prefix;  *)
(*  - customData is the tag {mindmapNodeId, role}, NoData when absent;     *)
(*  - styling, size and the geometry of connectors are not represented.    *)
(***************************************************************************)
NoId == <<>>
NoData == [mindmapNodeId |-> Null, role |-> "none"]
NoText == <<>>

Element(id, type) ==
    [id |-> id, type |-> type, containerId |-> NoId, customData |-> NoData,
     isDeleted |-> FALSE, x |-> 0, y |-> 0, text |-> NoText,
     startBinding |-> NoId, endBinding |-> NoId]

\* Map.get(id) answering undefined
NoElement == Element(NoId, "undefined")

ShapeId(nodeId) == <<"shape-", nodeId>>
ArrowId(parentId, childId) == <<"arrow-", parentId, childId>>
\* the id convertToExcalidrawElements gives the text it binds to shape-<nodeId>
BoundTextId(nodeId) == <<"text", nodeId>>

makeCustomData(nodeId, role) == [mindmapNodeId |-> nodeId, role |-> role]

(***************************************************************************)
(* The element projector (renderer.ts)                                     *)
(***************************************************************************)
\* mutant: the shape is drawn one pixel to the right of its position
createRectDescriptorShifted(node, pos) ==
    [id |-> ShapeId(node.id), type |-> "rectangle", x |-> pos[1] + Unit, y |-> pos[2],
     label |-> IF node.label # EmptyLabel THEN node.label ELSE <<" ">>,
     customData |-> makeCustomData(node.id, "shape")]

createRectDescriptor(node, pos) ==
    [id |-> ShapeId(node.id), type |-> "rectangle", x |-> pos[1], y |-> pos[2],
     label |-> IF node.label # EmptyLabel THEN node.label ELSE <<" ">>,
     customData |-> makeCustomData(node.id, "shape")]

\* mutant: the connector is tagged with the parent it starts from
createArrowDescriptorOwnedByParent(parentNode, childNode) ==
    [id |-> ArrowId(parentNode.id, childNode.id), type |-> "arrow",
     startBinding |-> ShapeId(parentNode.id), endBinding |-> ShapeId(childNode.id),
     customData |-> makeCustomData(parentNode.id, "connector")]

createArrowDescriptor(parentNode, childNode) ==
    [id |-> ArrowId(parentNode.id, childNode.id), type |-> "arrow",
     startBinding |-> ShapeId(parentNode.id), endBinding |-> ShapeId(childNode.id),
     customData |-> makeCustomData(childNode.id, "connector")]

\* walk and its loop over childrenIds; acc holds descriptors and visited
RECURSIVE walk(_, _, _, _)
RECURSIVE WalkEach(_, _, _, _)
walk(m, layout, nodeId, acc) ==
    IF nodeId \in acc.visited
    THEN acc
    ELSE LET seen == [acc EXCEPT !.visited = @ \cup {nodeId}]
         IN IF ~Has(m, nodeId) \/ nodeId \notin DOMAIN layout
            THEN seen
            ELSE LET node == Get(m, nodeId)
                     shape == <<createRectDescriptor(node, layout[nodeId])>>
                     arrow ==
                         IF node.parentId # Null /\ Has(m, node.parentId)
                            /\ node.parentId \in DOMAIN layout
                         THEN <<createArrowDescriptor(Get(m, node.parentId), node)>>
                         ELSE <<>>
                     own == [seen EXCEPT !.descriptors = @ \o shape \o arrow]
                 IN IF node.collapsed
                    THEN own
                    ELSE WalkEach(m, layout, node.childrenIds, own)

WalkEach(m, layout, ids, acc) ==
    IF ids = <<>>
    THEN acc
    ELSE WalkEach(m, layout, Tail(ids), walk(m, layout, Head(ids), acc))

\* the walk is started from each root in turn, with one visited set
buildElementDescriptors(ids, m, layout) ==
    WalkEach(m, layout, normalizeRootIds(ids),
             [descriptors |-> <<>>, visited |-> {}]).descriptors

\* convertToExcalidrawElements(descriptors, { regenerateIds: false }): a shape
\* descriptor becomes the shape followed by its bound text, an arrow one element
RECURSIVE convertToExcalidrawElements(_)
convertToExcalidrawElements(descriptors) ==
    IF descriptors = <<>>
    THEN <<>>
    ELSE LET d == Head(descriptors)
             made ==
                 IF d.type = "rectangle"
                 THEN << [Element(d.id, "rectangle") EXCEPT
                             !.x = d.x, !.y = d.y, !.customData = d.customData],
                         [Element(BoundTextId(d.customData.mindmapNodeId), "text") EXCEPT
                             !.x = d.x, !.y = d.y, !.containerId = d.id,
                             !.text = d.label] >>
                 ELSE << [Element(d.id, "arrow") EXCEPT
                             !.startBinding = d.startBinding,
                             !.endBinding = d.endBinding,
                             !.customData = d.customData] >>
         IN made \o convertToExcalidrawElements(Tail(descriptors))

(***************************************************************************)
(* canvasSync.ts                                                           *)
(***************************************************************************)
MANAGED_ELEMENT_ID_PREFIXES == {"shape-", "arrow-", "label-"}

hasManagedElementId(id) == id # NoId /\ id[1] \in MANAGED_ELEMENT_ID_PREFIXES

isManagedElement(element) ==
    /\ element.customData.mindmapNodeId # Null
    /\ element.customData.role \in {"shape", "label", "connector"}

resolveManagedShapeNodeId(element) ==
    IF isManagedElement(element) /\ element.customData.role = "shape"
    THEN element.customData.mindmapNodeId
    ELSE IF element.id[1] # "shape-" THEN Null ELSE element.id[2]

\* new Map(elements.map((e) => [e.id, e])).get(id): the last element with the id
ById(sceneElements, id) ==
    IF \E i \in DOMAIN sceneElements : sceneElements[i].id = id
    THEN sceneElements[CHOOSE i \in DOMAIN sceneElements :
            /\ sceneElements[i].id = id
            /\ \A j \in (i + 1)..Len(sceneElements) : sceneElements[j].id # id]
    ELSE NoElement

\* the element a selected id resolves through: a bound text's container if present
SelectedElement(selectedId, sceneElements) ==
    LET selectedEl == ById(sceneElements, selectedId)
    IN IF selectedEl.type = "text" /\ selectedEl.containerId # NoId
          /\ ById(sceneElements, selectedEl.containerId) # NoElement
       THEN ById(sceneElements, selectedEl.containerId)
       ELSE selectedEl

RECURSIVE resolveSelectedManagedNodeId(_, _)
resolveSelectedManagedNodeId(selectedIds, sceneElements) ==
    IF selectedIds = <<>>
    THEN Null
    ELSE IF isManagedElement(SelectedElement(Head(selectedIds), sceneElements))
         THEN SelectedElement(Head(selectedIds), sceneElements).customData.mindmapNodeId
         ELSE resolveSelectedManagedNodeId(Tail(selectedIds), sceneElements)

resolveLabelNodeId(element, sceneElements) ==
    IF element.type # "text"
    THEN Null
    ELSE IF isManagedElement(element) /\ element.customData.role = "label"
         THEN element.customData.mindmapNodeId
         ELSE IF element.containerId = NoId
              THEN Null
              ELSE IF isManagedElement(ById(sceneElements, element.containerId))
                   THEN ById(sceneElements, element.containerId).customData.mindmapNodeId
                   ELSE Null

(***************************************************************************)
(* The Canvas component (Canvas.tsx): what a render derives from the store *)
(***************************************************************************)
\* 0.5 px
POSITION_EPSILON == Unit \div 2

\* text.trim().length === 0
IsBlank(text) == \A i \in DOMAIN text : text[i] = " "

normalizeLabelForStore(text) == IF IsBlank(text) THEN EmptyLabel ELSE text

\* the useMemo chain layout -> descriptors -> elements of a render of store S
Layout(S) == computeLayout(S.rootIds, S.nodes)

Elements(S) ==
    convertToExcalidrawElements(buildElementDescriptors(S.rootIds, S.nodes, Layout(S)))

IsProjectedShape(element) ==
    isManagedElement(element) /\ element.customData.role = "shape"

managedShapeIds(elements) ==
    {elements[i].id : i \in {j \in DOMAIN elements : IsProjectedShape(elements[j])}}

projectedShapeIds(elements) ==
    {elements[i].customData.mindmapNodeId :
        i \in {j \in DOMAIN elements : IsProjectedShape(elements[j])}}

\* mutant: only the tag and the shapes of the current projection are looked at
isManagedSceneElementCurrentOnly(element, managedIds, knownIds) ==
    \/ isManagedElement(element)
    \/ /\ element.type = "text"
       /\ element.containerId # NoId
       /\ element.containerId \in managedIds

isManagedSceneElement(element, managedIds, knownIds) ==
    \/ isManagedElement(element)
    \/ hasManagedElementId(element.id)
    \/ hasManagedElementId(element.startBinding)
    \/ hasManagedElementId(element.endBinding)
    \/ /\ element.type = "text"
       /\ element.containerId # NoId
       /\ \/ element.containerId \in managedIds
          \/ element.containerId \in knownIds
          \/ hasManagedElementId(element.containerId)

mergeWithUnmanagedElements(latest, managedElements, managedIds, knownIds) ==
    SelectSeq(latest, LAMBDA element :
                  ~isManagedSceneElement(element, managedIds, knownIds))
        \o managedElements

\* a selection map is the sequence of its keys in insertion order
areSelectionMapsEqual(a, b) ==
    /\ Len(a) = Len(b)
    /\ \A i \in DOMAIN a : Includes(b, a[i])

\* mutant: the selected node's shape is the target whether projected or not
targetSelectionUnprojected(S, elements) ==
    IF S.selectedNodeId # Null THEN <<ShapeId(S.selectedNodeId)>> ELSE <<>>

targetSelection(S, elements) ==
    IF S.selectedNodeId # Null /\ S.selectedNodeId \in projectedShapeIds(elements)
    THEN <<ShapeId(S.selectedNodeId)>>
    ELSE <<>>

(***************************************************************************)
(* handleChange (Canvas.tsx): the steps after the suppression test. Each   *)
(* step takes and gives back H = [S |-> the store, calls |-> the store     *)
(* calls made so far, in order]                                            *)
(***************************************************************************)
StoreOp(op, id, arg) == [op |-> op, id |-> id, arg |-> arg]

Did(H, op, id, arg, S2) == [S |-> S2, calls |-> Append(H.calls, StoreOp(op, id, arg))]

\* the first loop: the owners of the shapes of `previous` that are gone from,
\* or newly marked deleted in, `current`, in the order a Set keeps them
RECURSIVE removedManagedNodeIds(_, _, _, _)
removedManagedNodeIds(previous, current, projected, removed) ==
    IF previous = <<>>
    THEN removed
    ELSE LET previousElement == Head(previous)
             removedNodeId == resolveManagedShapeNodeId(previousElement)
             currentElement == ById(current, previousElement.id)
             wasDeletedPreviously == previousElement.isDeleted
             isDeletedNow ==
                 IF currentElement # NoElement THEN currentElement.isDeleted ELSE TRUE
             isRemovedFromScene == currentElement = NoElement
             isNewlyDeleted == isDeletedNow /\ ~wasDeletedPreviously
         IN IF removedNodeId = Null \/ removedNodeId \notin projected
               \/ ~(isRemovedFromScene \/ isNewlyDeleted)
               \/ Includes(removed, removedNodeId)
            THEN removedManagedNodeIds(Tail(previous), current, projected, removed)
            ELSE removedManagedNodeIds(Tail(previous), current, projected,
                                       Append(removed, removedNodeId))

\* the while loop of the filter: some ancestor of nodeId, by the parentId
\* chain of m, is in `removed`
RECURSIVE HasRemovedAncestor(_, _, _)
HasRemovedAncestor(m, nodeId, removed) ==
    LET parentId == IF Has(m, nodeId) THEN Get(m, nodeId).parentId ELSE Null
    IN IF parentId = Null
       THEN FALSE
       ELSE Includes(removed, parentId) \/ HasRemovedAncestor(m, parentId, removed)

\* mutant: no filter, every removed id is deleted
topLevelUnfiltered(m, removed) == removed

topLevelRemovedNodeIds(m, removed) ==
    SelectSeq(removed, LAMBDA nodeId : ~HasRemovedAncestor(m, nodeId, removed))

\* for (const nodeId of topLevelRemovedNodeIds) if (state.nodes[nodeId]) deleteNode(nodeId)
RECURSIVE DeleteEach(_, _, _)
DeleteEach(ids, state, H) ==
    IF ids = <<>>
    THEN H
    ELSE IF Has(state.nodes, Head(ids))
         THEN Eval(Did(H, "deleteNode", Head(ids), Null, deleteNode(H.S, Head(ids))),
                   LAMBDA H2 : DeleteEach(Tail(ids), state, H2))
         ELSE DeleteEach(Tail(ids), state, H)

\* mutant: the selection is resolved from the last selected id only
selectionDetectionLast(selectedIds, sceneElements, H) ==
    LET one == IF selectedIds = <<>> THEN <<>> ELSE <<Last(selectedIds)>>
        selectedManagedNodeId == resolveSelectedManagedNodeId(one, sceneElements)
    IN IF H.S.selectedNodeId # selectedManagedNodeId
       THEN Did(H, "selectNode", selectedManagedNodeId, Null,
                selectNode(H.S, selectedManagedNodeId))
       ELSE H

selectionDetection(selectedIds, sceneElements, H) ==
    LET selectedManagedNodeId == resolveSelectedManagedNodeId(selectedIds, sceneElements)
        currentSelected == H.S.selectedNodeId
    IN IF Len(selectedIds) > 0
       THEN IF selectedManagedNodeId # Null
            THEN IF currentSelected # selectedManagedNodeId
                 THEN Did(H, "selectNode", selectedManagedNodeId, Null,
                          selectNode(H.S, selectedManagedNodeId))
                 ELSE H
            ELSE IF currentSelected # Null
                 THEN Did(H, "selectNode", Null, Null, selectNode(H.S, Null))
                 ELSE H
       ELSE IF currentSelected # Null
            THEN Did(H, "selectNode", Null, Null, selectNode(H.S, Null))
            ELSE H

RECURSIVE labelSync(_, _, _)
labelSync(i, sceneElements, H) ==
    IF i > Len(sceneElements)
    THEN H
    ELSE LET element == sceneElements[i]
             nodeId == resolveLabelNodeId(element, sceneElements)
             normalizedLabel == normalizeLabelForStore(element.text)
         IN IF element.type = "text" /\ nodeId # Null /\ Has(H.S.nodes, nodeId)
               /\ normalizedLabel # Get(H.S.nodes, nodeId).label
            THEN Eval(Did(H, "updateLabel", nodeId, normalizedLabel,
                          updateLabel(H.S, nodeId, normalizedLabel)),
                      LAMBDA H2 : labelSync(i + 1, sceneElements, H2))
            ELSE labelSync(i + 1, sceneElements, H)

Abs(n) == IF n < 0 THEN -n ELSE n

RECURSIVE positionSync(_, _, _, _)
positionSync(i, sceneElements, layout, H) ==
    IF i > Len(sceneElements)
    THEN H
    ELSE LET element == sceneElements[i]
             nodeId == element.customData.mindmapNodeId
             currentNode == Get(H.S.nodes, nodeId)
             referencePosition ==
                 IF currentNode.position # NoPos THEN currentNode.position
                 ELSE IF nodeId \in DOMAIN layout THEN layout[nodeId] ELSE NoPos
             hasMoved ==
                 \/ Abs(referencePosition[1] - element.x) > POSITION_EPSILON
                 \/ Abs(referencePosition[2] - element.y) > POSITION_EPSILON
         IN IF IsProjectedShape(element) /\ Has(H.S.nodes, nodeId)
               /\ referencePosition # NoPos /\ hasMoved
            THEN Eval(Did(H, "setNodePosition", nodeId, <<element.x, element.y>>,
                          setNodePosition(H.S, nodeId, <<element.x, element.y>>)),
                      LAMBDA H2 : positionSync(i + 1, sceneElements, layout, H2))
            ELSE positionSync(i + 1, sceneElements, layout, H)

\* mutant: the text being edited does not stop the selection and label steps
backwardPathIgnoringEdit(previous, sceneElements, appState, layout, projected, S) ==
    LET H0 == [S |-> S, calls |-> <<>>]
    IN Eval(removedManagedNodeIds(previous, sceneElements, projected, <<>>),
         LAMBDA removed :
           IF Len(removed) > 0
           THEN DeleteEach(topLevelRemovedNodeIds(S.nodes, removed), S, H0)
           ELSE Eval(selectionDetection(appState.selectedElementIds, sceneElements, H0),
                  LAMBDA H1 : Eval(labelSync(1, sceneElements, H1),
                  LAMBDA H2 : positionSync(1, sceneElements, layout, H2))))

\* handleChange from the deletion mirroring on; layout and projected are the
\* memoized values of the render the callback closes over
backwardPath(previous, sceneElements, appState, layout, projected, S) ==
    LET H0 == [S |-> S, calls |-> <<>>]
    IN Eval(removedManagedNodeIds(previous, sceneElements, projected, <<>>),
         LAMBDA removed :
           IF Len(removed) > 0
           THEN DeleteEach(topLevelRemovedNodeIds(S.nodes, removed), S, H0)
           ELSE IF appState.editingTextElement # NoId
                THEN H0
                ELSE Eval(selectionDetection(appState.selectedElementIds,
                                             sceneElements, H0),
                       LAMBDA H1 : Eval(labelSync(1, sceneElements, H1),
                       LAMBDA H2 : positionSync(1, sceneElements, layout, H2))))

\* what the last step did: the notification it handled, if any (the scene and
\* app state handed over, the scene of the notification before, the flag as
\* the handler found it), the store before the step, the store calls of the
\* handler and the scene writes of the step; `pushed` holds the elements the
\* last run of the push effect projected, in this step or an earlier one
NoEvent ==
    [kind |-> "none", notified |-> FALSE, suppressed |-> FALSE, previous |-> <<>>,
     scene |-> <<>>, selection |-> <<>>, editingText |-> NoId,
     before |-> [rootIds |-> <<>>, nodes |-> <<>>, deletedNodes |-> <<>>,
                 selectedNodeId |-> Null, focusBranchId |-> Null,
                 past |-> <<>>, future |-> <<>>],
     calls |-> <<>>, writes |-> <<>>, burst |-> 0, pushed |-> <<>>]

(***************************************************************************)
(* The store's API as actions (tests, keyboard hook and toolbar call it)   *)
(***************************************************************************)
\* inputs
Labels == {<<"a">>}
Types == {"task"}
Positions == {<<10 * Unit, 20 * Unit>>}
\* the ids a call is made with: every id handed out so far and one that was not
IdArgs == 1..(IF nextId <= MaxNodes THEN nextId ELSE MaxNodes)

\* no call of the shortcut policy is under way
NoInput ==
    [key |-> "", hasSelection |-> FALSE, isEditing |-> FALSE, hasModifier |-> FALSE,
     isEditableTarget |-> FALSE]

\* no forest was handed to the layout engine
NoForest == [rootIds |-> <<>>, nodes |-> <<>>]

EmptySnapshot ==
    [rootIds |-> <<>>, nodes |-> <<>>, deletedNodes |-> <<>>,
     selectedNodeId |-> Null, focusBranchId |-> Null]

\* a record of one call: `arg` is the argument after the id or, for the calls
\* that return an id, the id returned; `after` names the call that changed the
\* store last before this one
NoOp == [op |-> "none", id |-> Null, arg |-> Null, ok |-> FALSE, after |-> "none"]

Call(op, id, arg, ok) ==
    [op |-> op, id |-> id, arg |-> arg, ok |-> ok, after |-> lastChange.op]

SetStore(S) ==
    /\ rootIds' = S.rootIds
    /\ nodes' = S.nodes
    /\ deletedNodes' = S.deletedNodes
    /\ selectedNodeId' = S.selectedNodeId
    /\ focusBranchId' = S.focusBranchId
    /\ past' = S.past
    /\ future' = S.future

\* one store API call: S2 is the store after it; `fresh` tells whether a node
\* with id nextId was stored
StoreCall(op, id, arg, S2, fresh) ==
    LET changed == S2 # StoreState
    IN /\ opCount < MaxOps
       /\ SetStore(S2)
       /\ UNCHANGED canvasVars
       /\ UNCHANGED policyVars
       /\ UNCHANGED engineVars
       /\ nextId' = IF fresh /\ changed THEN nextId + 1 ELSE nextId
       /\ lastOp' = Call(op, id, arg, changed)
       /\ IF changed
          THEN /\ opCount' = opCount + 1
               /\ lastChange' = Call(op, id, arg, TRUE)
               /\ prevChange' = lastChange
               /\ before' = snapshotFromState(StoreState)
               /\ before2' = before
          ELSE UNCHANGED <<opCount, lastChange, prevChange, before, before2>>

InitRoot ==
    /\ nextId <= MaxNodes
    /\ StoreCall("initRoot", nextId, CentralTopic,
                 initRoot(StoreState, nextId, CentralTopic), TRUE)

AddChild(parentId) ==
    /\ nextId <= MaxNodes
    /\ StoreCall("addChild", parentId, nextId,
                 addChild(StoreState, nextId, parentId, EmptyLabel), TRUE)

AddSibling(siblingId) ==
    /\ nextId <= MaxNodes
    /\ StoreCall("addSibling", siblingId, addSiblingReturn(StoreState, nextId, siblingId),
                 addSibling(StoreState, nextId, siblingId, EmptyLabel), TRUE)

UpdateLabel(nodeId, label) ==
    StoreCall("updateLabel", nodeId, label, updateLabel(StoreState, nodeId, label), FALSE)

DeleteNode(nodeId) ==
    StoreCall("deleteNode", nodeId, Null, deleteNode(StoreState, nodeId), FALSE)

RestoreNode(nodeId) ==
    StoreCall("restoreNode", nodeId, Null, restoreNode(StoreState, nodeId), FALSE)

ToggleCollapse(nodeId) ==
    StoreCall("toggleCollapse", nodeId, Null, toggleCollapse(StoreState, nodeId), FALSE)

SelectNode(nodeId) ==
    StoreCall("selectNode", nodeId, Null, selectNode(StoreState, nodeId), FALSE)

SetNodeType(nodeId, type) ==
    StoreCall("setNodeType", nodeId, type, setNodeType(StoreState, nodeId, type), FALSE)

SetNodePosition(nodeId, position) ==
    StoreCall("setNodePosition", nodeId, position,
              setNodePosition(StoreState, nodeId, position), FALSE)

Undo == StoreCall("undo", Null, Null, undo(StoreState), FALSE)

Redo == StoreCall("redo", Null, Null, redo(StoreState), FALSE)

ClearHistory == StoreCall("clearHistory", Null, Null, clearHistory(StoreState), FALSE)

\* useMindmapStore.setState of the store tests: a live node's childrenIds is
\* emptied, or loses one entry, while the children keep their parentId
setStateChildren(S, nodeId, childrenIds) ==
    Merge(S, [nodes |-> Put(S.nodes, nodeId,
                            [Get(S.nodes, nodeId) EXCEPT !.childrenIds = childrenIds])])

DriftChildren(nodeId) ==
    /\ Has(nodes, nodeId)
    /\ \E childrenIds \in {<<>>} \cup
            {Without(Get(nodes, nodeId).childrenIds, c) : c \in Keys(nodes)} :
          StoreCall("setState", nodeId, childrenIds,
                    setStateChildren(StoreState, nodeId, childrenIds), FALSE)

\* the store, the component and the host after construction
InitProgram ==
    /\ rootIds = <<>>
    /\ nodes = <<>>
    /\ deletedNodes = <<>>
    /\ selectedNodeId = Null
    /\ focusBranchId = Null
    /\ past = <<>>
    /\ future = <<>>
    /\ nextId = 1
    /\ opCount = 0
    /\ lastOp = NoOp
    /\ lastChange = NoOp
    /\ prevChange = NoOp
    /\ before = EmptySnapshot
    /\ before2 = EmptySnapshot
    /\ api = FALSE
    /\ latestSceneElementsRef = <<>>
    /\ suppressOnChangeRef = FALSE
    /\ knownManagedShapeIdsRef = {}
    /\ isEditing = FALSE
    /\ rafQueue = <<>>
    /\ hostElements = <<>>
    /\ hostSelection = <<>>
    /\ hostEditing = NoId
    /\ echoPending = FALSE
    /\ ev = NoEvent

\* no call of the layout engine or the projector is under way
EngineIdle ==
    /\ forest = NoForest
    /\ layoutResults = <<>>
    /\ descriptorResults = <<>>

Init ==
    /\ InitProgram
    /\ shortcutInput = NoInput
    /\ shortcutResults = <<>>
    /\ EngineIdle

NextStore ==
    \/ InitRoot
    \/ \E id \in IdArgs : AddChild(id)
    \/ \E id \in IdArgs : AddSibling(id)
    \/ \E id \in IdArgs, label \in Labels : UpdateLabel(id, label)
    \/ \E id \in IdArgs : DeleteNode(id)
    \/ \E id \in IdArgs : RestoreNode(id)
    \/ \E id \in IdArgs : ToggleCollapse(id)
    \/ \E id \in IdArgs \cup {Null} : SelectNode(id)
    \/ \E id \in IdArgs, type \in Types : SetNodeType(id, type)
    \/ \E id \in IdArgs, position \in Positions : SetNodePosition(id, position)
    \/ Undo
    \/ Redo
    \/ ClearHistory

SpecStore == Init /\ [][NextStore]_vars

\* the store with the structural drift the tests inject
NextDrift ==
    \/ NextStore
    \/ \E id \in IdArgs : DriftChildren(id)

SpecDrift == Init /\ [][NextDrift]_vars

\* the store after initRoot and as many label changes of the root, one after
\* the other, as leave room for two more snapshots on the undo stack
RECURSIVE relabelled(_, _)
relabelled(S, n) ==
    IF n = 0
    THEN S
    ELSE IF n = 1
         THEN updateLabel(S, 1, IF S.nodes[1].label = <<"b">> THEN <<"a">> ELSE <<"b">>)
         ELSE Eval(relabelled(S, n \div 2), LAMBDA S2 : relabelled(S2, n - (n \div 2)))

LongHistory ==
    relabelled(initRoot([rootIds |-> <<>>, nodes |-> <<>>, deletedNodes |-> <<>>,
                         selectedNodeId |-> Null, focusBranchId |-> Null,
                         past |-> <<>>, future |-> <<>>], 1, CentralTopic),
               MAX_HISTORY_ENTRIES - 3)

InitHistory ==
    /\ \E S \in {LongHistory} :
          /\ rootIds = S.rootIds
          /\ nodes = S.nodes
          /\ deletedNodes = S.deletedNodes
          /\ selectedNodeId = S.selectedNodeId
          /\ focusBranchId = S.focusBranchId
          /\ past = S.past
          /\ future = S.future
          /\ before = Last(S.past)
    /\ nextId = 2
    /\ opCount = 0
    /\ lastOp = [op |-> "updateLabel", id |-> 1, arg |-> nodes[1].label, ok |-> TRUE,
                 after |-> "updateLabel"]
    /\ lastChange = lastOp
    /\ prevChange = lastOp
    /\ before2 = past[Len(past) - 1]
    /\ api = FALSE
    /\ latestSceneElementsRef = <<>>
    /\ suppressOnChangeRef = FALSE
    /\ knownManagedShapeIdsRef = {}
    /\ isEditing = FALSE
    /\ rafQueue = <<>>
    /\ hostElements = <<>>
    /\ hostSelection = <<>>
    /\ hostEditing = NoId
    /\ echoPending = FALSE
    /\ ev = NoEvent
    /\ shortcutInput = NoInput
    /\ shortcutResults = <<>>
    /\ EngineIdle

\* the calls that push on, or pop from, the history stacks
NextHistory ==
    \/ \E id \in IdArgs : AddChild(id)
    \/ \E id \in IdArgs, label \in Labels : UpdateLabel(id, label)
    \/ \E id \in IdArgs : DeleteNode(id)
    \/ Undo
    \/ Redo

\* the store with a long history behind it
SpecHistory == InitHistory /\ [][NextHistory]_vars

(***************************************************************************)
(* The Canvas component and the scene host as one world W:                 *)
(*   S            the store                                                *)
(*   latest       latestSceneElementsRef.current                           *)
(*   suppress     suppressOnChangeRef.current                              *)
(*   known        knownManagedShapeIdsRef.current                          *)
(*   editing      the keyboard hook's isEditing                            *)
(*   raf          the callbacks requestAnimationFrame holds for the next   *)
(*                frame, in the order they were requested                  *)
(*   elements, selection, editingText   the host's scene and app state     *)
(*   echo         the host has a change notification to emit for a         *)
(*                programmatic write                                       *)
(*   writes       the programmatic scene writes of the running step, each  *)
(*                with the host's selection as the write found it          *)
(*                (current) and the selection it carries (appState: one    *)
(*                selection, or none when appState is left undefined)      *)
(***************************************************************************)
World ==
    [S |-> StoreState, latest |-> latestSceneElementsRef,
     suppress |-> suppressOnChangeRef, known |-> knownManagedShapeIdsRef,
     editing |-> isEditing, raf |-> rafQueue, elements |-> hostElements,
     selection |-> hostSelection, editingText |-> hostEditing,
     echo |-> echoPending, writes |-> <<>>]

ClearFlag == [kind |-> "clear", nodeId |-> Null]
StartEdit(nodeId) == [kind |-> "startEdit", nodeId |-> nodeId]

\* the effect "Push projected elements to Excalidraw" of the render of W.S,
\* after the effect that remembers the managed shape ids
forwardPush(W) ==
    Eval(Elements(W.S), LAMBDA elements :
    LET managedIds == managedShapeIds(elements)
        knownIds == W.known \cup managedIds
        mergedElements == mergeWithUnmanagedElements(W.latest, elements, managedIds, knownIds)
        target == targetSelection(W.S, elements)
        shouldSyncSelection == ~areSelectionMapsEqual(W.selection, target)
    IN [W EXCEPT !.known = knownIds,
                 !.suppress = TRUE,
                 !.elements = mergedElements,
                 !.selection = IF shouldSyncSelection THEN target ELSE @,
                 !.echo = TRUE,
                 !.raf = Append(@, ClearFlag),
                 !.writes = Append(@, [kind |-> "push", elements |-> mergedElements,
                                       latest |-> W.latest, projected |-> elements,
                                       current |-> W.selection,
                                       appState |-> IF shouldSyncSelection
                                                    THEN <<target>> ELSE <<>>])])

\* React renders after a handler that changed a subscribed store slice, and
\* the render's effects run before anything else does
rerender(S0, W0) == Eval(W0, LAMBDA W : IF W.S # S0 THEN forwardPush(W) ELSE W)

\* api.getSceneElements(): the elements that are not deleted
getSceneElements(W) == SelectSeq(W.elements, LAMBDA element : ~element.isDeleted)

handleStartEdit(W, nodeId) ==
    LET shapeId == ShapeId(nodeId)
        labels == SelectSeq(getSceneElements(W), LAMBDA element :
                      element.type = "text" /\ element.containerId = shapeId)
    IN IF nodeId = Null \/ labels = <<>>
       THEN W
       ELSE [W EXCEPT !.suppress = TRUE,
                      !.selection = <<shapeId>>,
                      !.editingText = Head(labels).id,
                      !.echo = TRUE,
                      !.raf = Append(@, ClearFlag),
                      !.writes = Append(@, [kind |-> "startEdit", elements |-> W.elements,
                                            latest |-> W.latest, projected |-> <<>>,
                                            current |-> W.selection,
                                            appState |-> <<<<shapeId>>>>])]

\* mutant: the notification is interpreted whatever the suppression flag says
handleChangeUnguarded(W) ==
    LET appState == [selectedElementIds |-> W.selection,
                     editingTextElement |-> W.editingText]
        seen == [W EXCEPT !.latest = W.elements,
                          !.editing = appState.editingTextElement # NoId,
                          !.echo = FALSE]
    IN Eval(Layout(W.S), LAMBDA layout :
       Eval(projectedShapeIds(Elements(W.S)), LAMBDA projected :
       Eval(backwardPath(W.latest, W.elements, appState, layout, projected, W.S),
            LAMBDA H : [W |-> rerender(W.S, [seen EXCEPT !.S = H.S]),
                        calls |-> H.calls])))

\* onChange: the host hands its scene and app state to handleChange, and React
\* renders afterwards. Gives the world after it and the store calls made.
handleChange(W) ==
    LET appState == [selectedElementIds |-> W.selection,
                     editingTextElement |-> W.editingText]
        seen == [W EXCEPT !.latest = W.elements,
                          !.editing = appState.editingTextElement # NoId,
                          !.echo = FALSE]
    IN IF W.suppress
       THEN [W |-> seen, calls |-> <<>>]
       ELSE Eval(Layout(W.S), LAMBDA layout :
            Eval(projectedShapeIds(Elements(W.S)), LAMBDA projected :
            Eval(backwardPath(W.latest, W.elements, appState, layout, projected, W.S),
                 LAMBDA H : [W |-> rerender(W.S, [seen EXCEPT !.S = H.S]),
                             calls |-> H.calls])))

\* one animation frame: the callbacks requested before it run in order; what
\* they request waits for the next frame
RECURSIVE runFrame(_, _)
runFrame(callbacks, W) ==
    IF callbacks = <<>>
    THEN W
    ELSE LET callback == Head(callbacks)
         IN Eval(IF callback.kind = "clear"
                 THEN [W EXCEPT !.suppress = FALSE]
                 ELSE handleStartEdit(W, callback.nodeId),
                 LAMBDA W2 : runFrame(Tail(callbacks), W2))

(***************************************************************************)
(* The keyboard hook (useKeyboardShortcuts.ts, shortcutPolicy.ts)          *)
(***************************************************************************)
\* mutant: a held modifier key does not matter
getMindmapShortcutActionAnyModifier(input) ==
    IF input.isEditing \/ input.isEditableTarget \/ ~input.hasSelection
    THEN "null"
    ELSE CASE input.key = "Tab" -> "addChild"
           [] input.key = "Enter" -> "addSibling"
           [] input.key \in {"Delete", "Backspace"} -> "deleteNode"
           [] input.key = " " -> "toggleCollapse"
           [] input.key = "Escape" -> "deselect"
           [] input.key = "F2" -> "startEdit"
           [] OTHER -> "null"

getMindmapShortcutAction(input) ==
    IF input.isEditing \/ input.hasModifier \/ input.isEditableTarget
       \/ ~input.hasSelection
    THEN "null"
    ELSE CASE input.key = "Tab" -> "addChild"
           [] input.key = "Enter" -> "addSibling"
           [] input.key \in {"Delete", "Backspace"} -> "deleteNode"
           [] input.key = " " -> "toggleCollapse"
           [] input.key = "Escape" -> "deselect"
           [] input.key = "F2" -> "startEdit"
           [] OTHER -> "null"

\* the switch of handleKeyDown on world W with selected id selectedId; newId is
\* the id nanoid gives a node the call creates. A requested start of edit for
\* an id that was given to no stored node names Null.
handleKeyDown(W, action, selectedId, newId) ==
    CASE action = "addChild" ->
            LET S2 == addChild(W.S, newId, selectedId, EmptyLabel)
                startId == IF S2 # W.S THEN newId ELSE Null
            IN rerender(W.S, [W EXCEPT !.S = S2, !.raf = Append(@, StartEdit(startId))])
      [] action = "addSibling" ->
            LET S2 == addSibling(W.S, newId, selectedId, EmptyLabel)
                startId == IF addSiblingRefused(W.S, selectedId) THEN selectedId
                           ELSE IF S2 # W.S THEN newId ELSE Null
            IN rerender(W.S, [W EXCEPT !.S = S2, !.raf = Append(@, StartEdit(startId))])
      [] action = "deleteNode" ->
            rerender(W.S, [W EXCEPT !.S = deleteNode(W.S, selectedId)])
      [] action = "toggleCollapse" ->
            rerender(W.S, [W EXCEPT !.S = toggleCollapse(W.S, selectedId)])
      [] action = "deselect" ->
            rerender(W.S, [W EXCEPT !.S = selectNode(W.S, Null)])
      [] action = "startEdit" -> handleStartEdit(W, selectedId)
      [] OTHER -> W

\* a caller of the policy: every combination of the four flags with the keys
\* of the table and keys outside it (a letter, a modifier alone, an arrow, the
\* table's keys in another spelling)
PolicyKeys ==
    {"Tab", "Enter", "Delete", "Backspace", " ", "Escape", "F2",
     "a", "Shift", "ArrowDown", "tab", "Spacebar", "Del"}

ShortcutInputs ==
    [key : PolicyKeys, hasSelection : BOOLEAN, isEditing : BOOLEAN,
     hasModifier : BOOLEAN, isEditableTarget : BOOLEAN]

InitShortcut ==
    /\ InitProgram
    /\ shortcutInput \in ShortcutInputs
    /\ shortcutResults = <<>>
    /\ EngineIdle

\* one call of the policy with the caller's input
CallPolicy ==
    /\ Len(shortcutResults) < MaxCalls
    /\ shortcutResults' = Append(shortcutResults, getMindmapShortcutAction(shortcutInput))
    /\ UNCHANGED <<storeVars, nextId, opCount, ghostVars, canvasVars, shortcutInput>>
    /\ UNCHANGED engineVars

SpecShortcut == InitShortcut /\ [][CallPolicy]_vars

(***************************************************************************)
(* The layout engine and the projector, called as Canvas calls them: with  *)
(* the rootIds and nodes of a store that store API calls have built        *)
(***************************************************************************)
\* the positions a drag stores: one off the layout's grid, one where the
\* layout puts the second leaf
ForestPositions ==
    {<<10 * Unit, 20 * Unit>>, <<0, (NODE_HEIGHT + VERTICAL_GAP) * Unit>>}

EmptyStore ==
    [rootIds |-> <<>>, nodes |-> <<>>, deletedNodes |-> <<>>,
     selectedNodeId |-> Null, focusBranchId |-> Null, past |-> <<>>, future |-> <<>>]

\* the stores one structural store call away from S; nanoid's next id is the
\* number of nodes created so far plus one
Grown(S) ==
    LET id == Len(S.nodes) + Len(S.deletedNodes) + 1
        ids == 1..(id - 1)
        created ==
            IF id > MaxForestNodes
            THEN {}
            ELSE {initRoot(S, id, CentralTopic)}
                 \cup {addChild(S, id, parentId, EmptyLabel) : parentId \in ids}
                 \cup {addSibling(S, id, siblingId, EmptyLabel) : siblingId \in ids}
    IN created
       \cup {toggleCollapse(S, nodeId) : nodeId \in ids}
       \cup {setNodePosition(S, nodeId, position) :
                nodeId \in ids, position \in ForestPositions}
       \cup {deleteNode(S, nodeId) : nodeId \in ids}
       \cup {restoreNode(S, nodeId) : nodeId \in ids}

\* the stores at most k such calls away from the empty store, their history
\* cleared and nothing selected (neither is read by the engine)
RECURSIVE Stores(_)
Stores(k) ==
    IF k = 0
    THEN {EmptyStore}
    ELSE Eval(Stores(k - 1),
              LAMBDA reached :
                  reached \cup UNION {{selectNode(clearHistory(T), Null) : T \in Grown(S)} :
                                        S \in reached})

Forests == {[rootIds |-> S.rootIds, nodes |-> S.nodes] : S \in Stores(MaxForestOps)}

InitEngine ==
    /\ InitProgram
    /\ shortcutInput = NoInput
    /\ shortcutResults = <<>>
    /\ forest \in Forests
    /\ layoutResults = <<>>
    /\ descriptorResults = <<>>

\* one call of computeLayout with the caller's forest
CallComputeLayout ==
    /\ Len(layoutResults) < MaxCalls
    /\ layoutResults' =
           Append(layoutResults, computeLayout(forest.rootIds, forest.nodes))
    /\ UNCHANGED <<storeVars, nextId, opCount, ghostVars, canvasVars, policyVars,
                   forest, descriptorResults>>

\* one call of buildElementDescriptors with the caller's forest and its layout
CallBuildElementDescriptors ==
    /\ Len(descriptorResults) < MaxCalls
    /\ descriptorResults' =
           Append(descriptorResults,
                  buildElementDescriptors(forest.rootIds, forest.nodes,
                                          computeLayout(forest.rootIds, forest.nodes)))
    /\ UNCHANGED <<storeVars, nextId, opCount, ghostVars, canvasVars, policyVars,
                   forest, layoutResults>>

NextEngine ==
    \/ CallComputeLayout
    \/ CallBuildElementDescriptors

SpecEngine == InitEngine /\ [][NextEngine]_vars

(***************************************************************************)
(* computeLayout as an exported function: any list of root ids, among them *)
(* the empty string, ids without a node and ids of children, and a nodes   *)
(* record that may have lost an entry its neighbours still refer to        *)
(***************************************************************************)
\* the lists of at most MaxRootArgs ids, Null standing for the empty string
RECURSIVE RootLists(_)
RootLists(n) ==
    IF n = 0
    THEN {<<>>}
    ELSE Eval(RootLists(n - 1),
              LAMBDA shorter :
                  shorter \cup {Append(ids, id) : ids \in shorter, id \in 0..MaxArgNodes})

\* the nodes records: those of the stores a few calls away from the empty
\* store, whole or with one entry removed
NodeRecords ==
    Eval({S.nodes : S \in Stores(MaxArgOps)},
         LAMBDA built : built \cup UNION {{Del(m, id) : id \in Keys(m)} : m \in built})

Arguments == {[rootIds |-> ids, nodes |-> m] : ids \in RootLists(MaxRootArgs), m \in NodeRecords}

InitLayout ==
    /\ InitProgram
    /\ shortcutInput = NoInput
    /\ shortcutResults = <<>>
    /\ forest \in Arguments
    /\ layoutResults = <<>>
    /\ descriptorResults = <<>>

NextLayout == CallComputeLayout

SpecLayout == InitLayout /\ [][NextLayout]_vars

(***************************************************************************)
(* The store with a small tree in it, under callers that select nothing    *)
(* but a live node or null                                                 *)
(***************************************************************************)
\* the store after initRoot and addChild on the root
SmallTree == addChild(initRoot(EmptyStore, 1, CentralTopic), 2, 1, EmptyLabel)

InitSelect ==
    /\ \E S \in {SmallTree} :
          /\ rootIds = S.rootIds
          /\ nodes = S.nodes
          /\ deletedNodes = S.deletedNodes
          /\ selectedNodeId = S.selectedNodeId
          /\ focusBranchId = S.focusBranchId
          /\ past = S.past
          /\ future = S.future
          /\ before = S.past[2]
          /\ before2 = S.past[1]
    /\ nextId = 3
    /\ opCount = 0
    /\ lastOp = [op |-> "addChild", id |-> 1, arg |-> 2, ok |-> TRUE, after |-> "initRoot"]
    /\ lastChange = lastOp
    /\ prevChange = [op |-> "initRoot", id |-> 1, arg |-> CentralTopic, ok |-> TRUE,
                     after |-> "none"]
    /\ api = FALSE
    /\ latestSceneElementsRef = <<>>
    /\ suppressOnChangeRef = FALSE
    /\ knownManagedShapeIdsRef = {}
    /\ isEditing = FALSE
    /\ rafQueue = <<>>
    /\ hostElements = <<>>
    /\ hostSelection = <<>>
    /\ hostEditing = NoId
    /\ echoPending = FALSE
    /\ ev = NoEvent
    /\ shortcutInput = NoInput
    /\ shortcutResults = <<>>
    /\ EngineIdle

\* the calls that set selectedNodeId: the keyboard hook, the toolbar and the
\* store's tests call selectNode with null or with the id of a live node
NextSelect ==
    \/ InitRoot
    \/ \E id \in IdArgs : AddChild(id)
    \/ \E id \in IdArgs : AddSibling(id)
    \/ \E id \in IdArgs : DeleteNode(id)
    \/ \E id \in IdArgs : RestoreNode(id)
    \/ \E id \in IdArgs \cup {Null} : (id = Null \/ Has(nodes, id)) /\ SelectNode(id)
    \/ Undo
    \/ Redo

SpecSelect == InitSelect /\ [][NextSelect]_vars

(***************************************************************************)
(* The reconciler's steps as actions                                       *)
(***************************************************************************)
\* inputs of the user's work on the host
Texts == {<<" ">>, <<" ", "b">>}
DragBy == {POSITION_EPSILON, 100 * Unit}
CopyOffset == 10 * Unit
ShortcutKeys == {"Tab", "Enter", "Delete", " ", "Escape", "F2"}

FreeId == <<"free", 1>>
LinkId == <<"free", 2>>
CopyId(nodeId) == <<"copy", nodeId>>
CopyTextId(nodeId) == <<"copytext", nodeId>>

SetWorld(W) ==
    /\ SetStore(W.S)
    /\ latestSceneElementsRef' = W.latest
    /\ suppressOnChangeRef' = W.suppress
    /\ knownManagedShapeIdsRef' = W.known
    /\ isEditing' = W.editing
    /\ rafQueue' = W.raf
    /\ hostElements' = W.elements
    /\ hostSelection' = W.selection
    /\ hostEditing' = W.editingText
    /\ echoPending' = W.echo

\* the steps the user takes; the others are the reconciler's own
UserKinds ==
    {"create", "key", "select", "drag", "type", "stopEdit", "delete", "draw", "duplicate",
     "paste"}

\* the scene writes and store calls since the user's last input
Burst(kind, n) == IF kind \in UserKinds THEN 0 ELSE ev.burst + n

\* what the push effect projected when it ran last, up to the end of a step
\* with these scene writes
LastPushed(writes) ==
    LET pushes == SelectSeq(writes, LAMBDA w : w.kind = "push")
    IN IF pushes = <<>> THEN ev.pushed ELSE <<Last(pushes).projected>>

\* a step that handles no notification and ends in world W
Step(kind, W0) ==
    \E W \in {W0} :
    /\ SetWorld(W)
    /\ ev' = [NoEvent EXCEPT !.kind = kind, !.before = StoreState, !.writes = W.writes,
                             !.burst = Burst(kind, Len(W.writes)),
                             !.pushed = LastPushed(W.writes)]
    /\ UNCHANGED ghostVars
    /\ UNCHANGED policyVars
    /\ UNCHANGED engineVars

\* a step in which the host, in world W1, notifies handleChange
Notified(kind, W1) ==
    \E R \in {handleChange(W1)} :
       /\ SetWorld(R.W)
       /\ ev' = [kind |-> kind, notified |-> TRUE, suppressed |-> W1.suppress,
                 previous |-> W1.latest, scene |-> W1.elements,
                 selection |-> W1.selection, editingText |-> W1.editingText,
                 before |-> StoreState, calls |-> R.calls, writes |-> R.W.writes,
                 burst |-> Burst(kind, Len(R.W.writes) + Len(R.calls)),
                 pushed |-> LastPushed(R.W.writes)]
       /\ UNCHANGED ghostVars
       /\ UNCHANGED policyVars
       /\ UNCHANGED engineVars

\* Excalidraw hands over its API: the push effect runs for the first time
Mount ==
    /\ ~api
    /\ api' = TRUE
    /\ Step("mount", forwardPush(World))
    /\ UNCHANGED <<nextId, opCount>>

\* the toolbar button "Create mindmap tree"
handleCreateMindmapTree ==
    /\ api
    /\ nextId <= MaxSceneNodes
    /\ Step("create", rerender(StoreState,
                         [World EXCEPT !.S = initRoot(StoreState, nextId, MindmapTree)]))
    /\ nextId' = nextId + 1
    /\ UNCHANGED <<api, opCount>>

\* a key pressed inside the shortcut scope
KeyDown(key, hasModifier, max) ==
    LET selectedId == selectedNodeId
        action == getMindmapShortcutAction(
                      [key |-> key, hasSelection |-> selectedId # Null,
                       isEditing |-> isEditing, hasModifier |-> hasModifier,
                       isEditableTarget |-> hostEditing # NoId /\ ~echoPending])
        W == handleKeyDown(World, action, selectedId, nextId)
    IN /\ api
       /\ opCount < max
       /\ action # "null"
       /\ (action = "addChild"
            \/ (action = "addSibling" /\ ~addSiblingRefused(StoreState, selectedId)))
             => nextId <= MaxSceneNodes
       /\ Step("key", W)
       /\ nextId' = IF Has(W.S.nodes, nextId) THEN nextId + 1 ELSE nextId
       /\ opCount' = opCount + 1
       /\ UNCHANGED api

\* the host emits the change notification of a programmatic write
HostEcho ==
    /\ api
    /\ echoPending
    /\ ev.burst < MaxBurst
    /\ Notified("echo", World)
    /\ UNCHANGED <<api, nextId, opCount>>

\* the browser runs an animation frame
FrameTick ==
    /\ rafQueue # <<>>
    /\ ev.burst < MaxBurst
    /\ Step("frame", runFrame(rafQueue, [World EXCEPT !.raf = <<>>]))
    /\ UNCHANGED <<api, nextId, opCount>>

\* the user works on the host, which notifies at once
UserAction(kind, W1, max) ==
    /\ api
    /\ opCount < max
    /\ Notified(kind, W1)
    /\ opCount' = opCount + 1
    /\ UNCHANGED <<api, nextId>>

LiveIds(elements) ==
    {elements[i].id : i \in {j \in DOMAIN elements : ~elements[j].isDeleted}}

\* the selections a user makes: up to MaxSelected live elements, in any order
Selections(elements) ==
    {sel \in UNION {[1..k -> LiveIds(elements)] : k \in 0..MaxSelected} :
        \A i, j \in DOMAIN sel : i # j => sel[i] # sel[j]}

UserSelect(sel, max) ==
    /\ hostEditing = NoId
    /\ sel # hostSelection
    /\ UserAction("select", [World EXCEPT !.selection = sel], max)

\* a shape, or another rectangle, is dragged; its bound text moves with it
UserDrag(id, by, max) ==
    /\ hostEditing = NoId
    /\ id \in LiveIds(hostElements)
    /\ ById(hostElements, id).type = "rectangle"
    /\ UserAction("drag",
          [World EXCEPT
              !.selection = <<id>>,
              !.elements = [i \in DOMAIN hostElements |->
                  IF hostElements[i].id = id \/ hostElements[i].containerId = id
                  THEN [hostElements[i] EXCEPT !.x = @ + by, !.y = @ + by]
                  ELSE hostElements[i]]], max)

\* the user types in the text being edited
UserType(text, max) ==
    /\ hostEditing # NoId
    /\ hostEditing \in LiveIds(hostElements)
    /\ ById(hostElements, hostEditing).text # text
    /\ UserAction("type",
          [World EXCEPT !.elements = [i \in DOMAIN hostElements |->
              IF hostElements[i].id = hostEditing
              THEN [hostElements[i] EXCEPT !.text = text]
              ELSE hostElements[i]]], max)

\* the user leaves the text editor
UserStopEdit(max) ==
    /\ hostEditing # NoId
    /\ UserAction("stopEdit", [World EXCEPT !.editingText = NoId], max)

\* the host's delete action on the selected elements: they and the texts
\* bound to them are marked deleted and the selection is emptied
UserDelete(max) ==
    /\ hostEditing = NoId
    /\ hostSelection # <<>>
    /\ UserAction("delete",
          [World EXCEPT
              !.selection = <<>>,
              !.elements = [i \in DOMAIN hostElements |->
                  IF Includes(hostSelection, hostElements[i].id)
                     \/ Includes(hostSelection, hostElements[i].containerId)
                  THEN [hostElements[i] EXCEPT !.isDeleted = TRUE]
                  ELSE hostElements[i]]], max)

\* the user draws a rectangle of their own
UserDrawRectangle(max) ==
    /\ hostEditing = NoId
    /\ ById(hostElements, FreeId) = NoElement
    /\ UserAction("draw",
          [World EXCEPT !.selection = <<FreeId>>,
                        !.elements = Append(@, [Element(FreeId, "rectangle") EXCEPT
                                                   !.x = 50 * Unit, !.y = 300 * Unit])],
          max)

\* the user draws an arrow of their own that starts at a live element
UserDrawArrow(from, max) ==
    /\ hostEditing = NoId
    /\ ById(hostElements, LinkId) = NoElement
    /\ from \in LiveIds(hostElements)
    /\ ById(hostElements, from).type = "rectangle"
    /\ UserAction("draw",
          [World EXCEPT !.selection = <<LinkId>>,
                        !.elements = Append(@, [Element(LinkId, "arrow") EXCEPT
                                                   !.startBinding = from])], max)

\* the host's duplicate action on a selected managed shape: the copies of the
\* shape and of its bound text get new ids and keep every other property
UserDuplicate(nodeId, max) ==
    LET shape == ById(hostElements, ShapeId(nodeId))
        label == ById(hostElements, BoundTextId(nodeId))
        copies ==
            <<[shape EXCEPT !.id = CopyId(nodeId), !.x = @ + CopyOffset,
                            !.y = @ + CopyOffset]>>
            \o (IF label # NoElement /\ ~label.isDeleted
                THEN <<[label EXCEPT !.id = CopyTextId(nodeId),
                                     !.containerId = CopyId(nodeId),
                                     !.x = @ + CopyOffset, !.y = @ + CopyOffset]>>
                ELSE <<>>)
    IN /\ hostEditing = NoId
       /\ hostSelection = <<ShapeId(nodeId)>>
       /\ ShapeId(nodeId) \in LiveIds(hostElements)
       /\ ById(hostElements, CopyId(nodeId)) = NoElement
       /\ UserAction("duplicate",
             [World EXCEPT !.selection = <<CopyId(nodeId)>>,
                           !.elements = @ \o copies], max)

PasteId(nodeId) == <<"paste", nodeId>>
PasteTextId(nodeId) == <<"pastetext", nodeId>>

\* the host's paste action: the clipboard holds a managed shape and its bound
\* text as they were copied from the scene at some earlier time (the node may
\* have been deleted since); the pasted elements get new ids, keep every other
\* property and are selected
UserPaste(nodeId, text, max) ==
    /\ hostEditing = NoId
    /\ ShapeId(nodeId) \in knownManagedShapeIdsRef
    /\ ById(hostElements, PasteId(nodeId)) = NoElement
    /\ UserAction("paste",
          [World EXCEPT
              !.selection = <<PasteId(nodeId)>>,
              !.elements = @ \o
                  << [Element(PasteId(nodeId), "rectangle") EXCEPT
                         !.x = CopyOffset, !.y = CopyOffset,
                         !.customData = makeCustomData(nodeId, "shape")],
                     [Element(PasteTextId(nodeId), "text") EXCEPT
                         !.x = CopyOffset, !.y = CopyOffset,
                         !.containerId = PasteId(nodeId), !.text = text] >>], max)

NextSync ==
    \/ Mount
    \/ handleCreateMindmapTree
    \/ \E key \in ShortcutKeys, hasModifier \in BOOLEAN : KeyDown(key, hasModifier, MaxUser)
    \/ HostEcho
    \/ FrameTick
    \/ \E sel \in Selections(hostElements) : UserSelect(sel, MaxUser)
    \/ \E id \in LiveIds(hostElements), by \in DragBy : UserDrag(id, by, MaxUser)
    \/ \E text \in Texts : UserType(text, MaxUser)
    \/ UserStopEdit(MaxUser)
    \/ UserDelete(MaxUser)
    \/ UserDrawRectangle(MaxUser)
    \/ \E from \in LiveIds(hostElements) : UserDrawArrow(from, MaxUser)
    \/ \E nodeId \in 1..MaxSceneNodes : UserDuplicate(nodeId, MaxUser)

\* the reconciler under a user who presses keys and works on the host
SpecSync == Init /\ [][NextSync]_vars

\* the host hands over a notification it holds: with the echo, or with the
\* notification of the user's next action
Delivery ==
    /\ api
    /\ echoPending
    /\ ev.burst < MaxBurst
    /\ echoPending' = FALSE

\* the same with the scheduling of the browser and the host: a requested
\* animation frame runs, a notification the host holds is handed over
SpecSyncFair ==
    Init /\ [][NextSync]_vars /\ WF_vars(FrameTick) /\ WF_echoPending(Delivery)

\* the same user, who never moves a managed shape: only rectangles that carry
\* no ownership tag are dragged
NextStill ==
    \/ Mount
    \/ handleCreateMindmapTree
    \/ \E key \in ShortcutKeys, hasModifier \in BOOLEAN : KeyDown(key, hasModifier, MaxUser)
    \/ HostEcho
    \/ FrameTick
    \/ \E sel \in Selections(hostElements) : UserSelect(sel, MaxUser)
    \/ \E id \in LiveIds(hostElements), by \in DragBy :
           /\ ~isManagedElement(ById(hostElements, id))
           /\ UserDrag(id, by, MaxUser)
    \/ \E text \in Texts : UserType(text, MaxUser)
    \/ UserStopEdit(MaxUser)
    \/ UserDelete(MaxUser)
    \/ UserDrawRectangle(MaxUser)
    \/ \E from \in LiveIds(hostElements) : UserDrawArrow(from, MaxUser)
    \/ \E nodeId \in 1..MaxSceneNodes : UserDuplicate(nodeId, MaxUser)

SpecStill == Init /\ [][NextStill]_vars

NextEdit ==
    \/ Mount
    \/ handleCreateMindmapTree
    \/ \E key \in {"Tab", "F2"} : KeyDown(key, FALSE, MaxEdit)
    \/ HostEcho
    \/ FrameTick
    \/ \E sel \in Selections(hostElements) : UserSelect(sel, MaxEdit)
    \/ \E text \in Texts : UserType(text, MaxEdit)
    \/ UserStopEdit(MaxEdit)
    \/ UserDelete(MaxEdit)
    \/ \E nodeId \in 1..MaxSceneNodes : UserDuplicate(nodeId, MaxEdit)

\* the reconciler under a user who adds nodes, edits labels, selects, deletes
\* and duplicates, for one interaction more
SpecEdit == Init /\ [][NextEdit]_vars

NextPaste ==
    \/ Mount
    \/ handleCreateMindmapTree
    \/ \E key \in {"Tab", "Delete"} : KeyDown(key, FALSE, MaxUser)
    \/ HostEcho
    \/ FrameTick
    \/ \E sel \in Selections(hostElements) : UserSelect(sel, MaxUser)
    \/ \E id \in LiveIds(hostElements), by \in DragBy : UserDrag(id, by, MaxUser)
    \/ UserDelete(MaxUser)
    \/ \E nodeId \in 1..MaxSceneNodes, text \in Texts : UserPaste(nodeId, text, MaxUser)

\* the reconciler under a user who also pastes shapes copied earlier
SpecPaste == Init /\ [][NextPaste]_vars

(***************************************************************************)
(* Vocabulary of the store claims                                          *)
(***************************************************************************)
MutatingOps ==
    {"initRoot", "addChild", "addSibling", "updateLabel", "deleteNode",
     "restoreNode", "toggleCollapse", "setNodeType", "setNodePosition"}

Observable == snapshotFromState(StoreState)

\* c is a child of p in the map m: p lists it, or it names p as its parent
IsChildIn(m, c, p) ==
    /\ Has(m, c)
    /\ Has(m, p)
    /\ \/ Includes(Get(m, p).childrenIds, c)
       \/ Get(m, c).parentId = p

\* the least set that holds `set` and every child, in m, of a member
RECURSIVE Closure(_, _)
Closure(m, set) ==
    LET more == set \cup {c \in Keys(m) : \E p \in set : IsChildIn(m, c, p)}
    IN IF more = set THEN set ELSE Closure(m, more)

\* N and its descendants in m
Subtree(m, n) == Closure(m, {n})

\* some member of the subtree of n is reachable only through a parentId:
\* no member of the subtree lists it in childrenIds
DriftedSubtree(m, n) ==
    \E d \in Subtree(m, n) \ {n} :
        \A p \in Subtree(m, n) : ~Includes(Get(m, p).childrenIds, d)

\* the last call is the last change: nothing was called since
JustChanged == lastOp.ok

\* C1: deleteNode(N) on a live node N, also in a store whose childrenIds have
\* drifted, moves N and every descendant of N (by childrenIds or by parentId)
\* from nodes to deletedNodes, and the childrenIds of N's parent (the live node
\* N.parentId names) no longer hold N. A deleteNode that changes nothing was
\* called with an id that is not live.
C1_DeleteRemovesSubtree ==
    /\ (lastOp.op = "deleteNode" /\ ~lastOp.ok) => ~Has(nodes, lastOp.id)
    /\ (JustChanged /\ lastChange.op = "deleteNode") =>
          LET n == lastChange.id
              pre == before.nodes
              parentId == Get(pre, n).parentId
          IN /\ \A d \in Subtree(pre, n) :
                   /\ ~Has(nodes, d)
                   /\ Has(deletedNodes, d)
                   /\ Get(deletedNodes, d).id = d
             /\ (parentId # Null /\ Has(nodes, parentId)) =>
                   ~Includes(Get(nodes, parentId).childrenIds, n)
             /\ (parentId # Null /\ Has(pre, parentId)) =>
                   \/ Has(nodes, parentId)
                   \/ parentId \in Subtree(pre, n)

C1_Witness ==
    /\ JustChanged
    /\ lastChange.op = "deleteNode"
    /\ Cardinality(Subtree(before.nodes, lastChange.id)) >= 2
    /\ DriftedSubtree(before.nodes, lastChange.id)

\* C2: deleteNode(N) followed at once by restoreNode(N) leaves N and all its
\* former descendants in nodes and out of deletedNodes, N listed again by its
\* (live) parent, and a root N listed in rootIds. The restoreNode after the
\* deleteNode is never without effect.
C2_RestoreAfterDelete ==
    /\ ~(lastOp.op = "restoreNode" /\ ~lastOp.ok
          /\ lastChange.op = "deleteNode" /\ lastChange.id = lastOp.id)
    /\ (JustChanged /\ lastChange.op = "restoreNode"
         /\ prevChange.op = "deleteNode" /\ prevChange.id = lastChange.id) =>
          LET n == lastChange.id
              pre == before2.nodes
              parentId == Get(pre, n).parentId
          IN /\ \A d \in Subtree(pre, n) : Has(nodes, d) /\ ~Has(deletedNodes, d)
             /\ (parentId # Null /\ Has(pre, parentId)) =>
                   /\ Has(nodes, parentId)
                   /\ Includes(Get(nodes, parentId).childrenIds, n)
             /\ parentId = Null => Includes(rootIds, n)

C2_Witness ==
    /\ JustChanged
    /\ lastChange.op = "restoreNode"
    /\ prevChange.op = "deleteNode"
    /\ prevChange.id = lastChange.id
    /\ Cardinality(Subtree(before2.nodes, lastChange.id)) >= 2
    /\ Get(before2.nodes, lastChange.id).parentId # Null

\* C3: undo right after a store operation that changed the state gives back
\* the five state fields as they were before the operation, redo right after
\* that undo gives back the fields as the operation left them, and neither is
\* without effect.
C3_UndoRedo ==
    /\ ~(lastOp.op = "undo" /\ ~lastOp.ok /\ lastChange.op \in MutatingOps)
    /\ ~(lastOp.op = "redo" /\ ~lastOp.ok /\ lastChange.op = "undo")
    /\ (JustChanged /\ lastChange.op = "undo" /\ prevChange.op \in MutatingOps) =>
          Observable = before2
    /\ (JustChanged /\ lastChange.op = "redo" /\ prevChange.op = "undo"
         /\ prevChange.after \in MutatingOps) =>
          Observable = before2

C3_Witness ==
    /\ JustChanged
    /\ lastChange.op = "redo"
    /\ prevChange.op = "undo"
    /\ prevChange.after = "restoreNode"
    /\ Observable # before


(***************************************************************************)
(* Vocabulary of the reconciler claims                                     *)
(***************************************************************************)
\* the last step handled a notification with the suppression flag released
Handled == ev.notified /\ ~ev.suppressed

\* the nodes of the projection whose shape elements, present in the scene of
\* the notification before, are gone from the notified scene or newly marked
\* deleted in it
RemovedOwners ==
    {n \in projectedShapeIds(Elements(ev.before)) :
        \E i \in DOMAIN ev.previous :
            LET was == ev.previous[i]
                now == ById(ev.scene, was.id)
            IN /\ resolveManagedShapeNodeId(was) = n
               /\ \/ now = NoElement
                  \/ now.isDeleted /\ ~was.isDeleted}

\* a notification with the flag released, no host deletion and no text edit
Plain == Handled /\ RemovedOwners = {} /\ ev.editingText = NoId

\* a is a proper ancestor of n in map m
IsAncestor(m, a, n) == a # n /\ n \in Subtree(m, a)

\* the store calls the steps after the suppression test make of the last
\* notification
WouldCall ==
    backwardPath(ev.previous, ev.scene,
                 [selectedElementIds |-> ev.selection,
                  editingTextElement |-> ev.editingText],
                 Layout(ev.before), projectedShapeIds(Elements(ev.before)),
                 ev.before).calls

\* C4: every echo of a programmatic scene write (forward push or start-edit
\* write) is handled while the suppression flag is still set
C4_EchoSuppressed == ev.kind = "echo" => ev.suppressed

\* no frame callback waits and the host holds no notification
Quiescent == rafQueue = <<>> /\ ~echoPending

\* C5: no feedback loop: left alone by the user, the reconciler makes finitely
\* many scene writes and store calls (it never comes to the point where the
\* model stops it) and then rests, with nothing scheduled
C5_NoFeedbackLoop == [](ev.burst < MaxBurst) /\ <>[]Quiescent

\* the reconciler has come to rest after three or more writes and calls of its
\* own, one of them a store call made of an echo
C5_Witness ==
    /\ Quiescent
    /\ ev.burst >= 3
    /\ ev.kind = "echo"

\* C6: a notification handled while the suppression flag is set performs no
\* store operation: the store and both history stacks are as before
C6_SuppressedNoStoreOp ==
    (ev.notified /\ ev.suppressed) => (ev.calls = <<>> /\ StoreState = ev.before)

\* a suppressed notification of which the later steps would have made store calls
C6_Witness == ev.notified /\ ev.suppressed /\ WouldCall # <<>>

\* the element with this id is in the scene and tagged
Tagged(scene, id) == id # NoId /\ isManagedElement(ById(scene, id))

\* managed: tagged, text bound to a tagged container, connector bound to a
\* tagged element, or carrying a managed id (its own, its container's or its
\* bound element's) that is stale
ManagedInScene(element, scene) ==
    \/ isManagedElement(element)
    \/ element.type = "text" /\ Tagged(scene, element.containerId)
    \/ Tagged(scene, element.startBinding)
    \/ Tagged(scene, element.endBinding)
    \/ hasManagedElementId(element.id)
    \/ element.type = "text" /\ hasManagedElementId(element.containerId)
    \/ hasManagedElementId(element.startBinding)
    \/ hasManagedElementId(element.endBinding)

UnmanagedOf(scene) == SelectSeq(scene, LAMBDA element : ~ManagedInScene(element, scene))

\* C7: the element list of every forward write is the unmanaged elements of
\* the most recently reported scene, in order and unmodified, followed by the
\* projected managed elements
C7_ForwardWrite ==
    \A i \in DOMAIN ev.writes :
        ev.writes[i].kind = "push" =>
            ev.writes[i].elements =
                UnmanagedOf(ev.writes[i].latest) \o ev.writes[i].projected

\* the removed nodes that have no removed ancestor
TopRemoved ==
    {n \in RemovedOwners :
        ~\E a \in RemovedOwners : IsAncestor(ev.before.nodes, a, n)}

\* C8: when a notification with the flag released shows the shapes of a set R
\* of projected nodes gone, deleteNode is called exactly once for each member
\* of R without an ancestor in R and nothing else is called; afterwards every
\* node of R and all its descendants are in deletedNodes
C8_DeleteMirrored ==
    (Handled /\ RemovedOwners # {}) =>
        /\ \A i \in DOMAIN ev.calls : ev.calls[i].op = "deleteNode"
        /\ {ev.calls[i].id : i \in DOMAIN ev.calls} = TopRemoved
        /\ Len(ev.calls) = Cardinality(TopRemoved)
        /\ \A n \in RemovedOwners :
               Subtree(ev.before.nodes, n) \subseteq Keys(deletedNodes)

\* a parent and its child were removed together and one call deleted both
C8_Witness ==
    /\ Handled
    /\ \E n, c \in RemovedOwners :
          /\ IsAncestor(ev.before.nodes, n, c)
          /\ ev.calls = <<StoreOp("deleteNode", n, Null)>>
          /\ {n, c} \subseteq Keys(deletedNodes)

\* the node a selected id stands for: the owner of the element, or of the
\* container of a bound text, when that is tagged
OwnerOfSelected(scene, id) ==
    LET element == ById(scene, id)
        container == IF element.type = "text" /\ element.containerId # NoId
                     THEN ById(scene, element.containerId)
                     ELSE NoElement
        resolved == IF container # NoElement THEN container ELSE element
    IN IF isManagedElement(resolved) THEN resolved.customData.mindmapNodeId ELSE Null

\* the owner of the first selected id, in selection order, that has one
FirstOwner(scene, selection) ==
    LET hits == {i \in DOMAIN selection : OwnerOfSelected(scene, selection[i]) # Null}
    IN IF hits = {}
       THEN Null
       ELSE OwnerOfSelected(scene,
                selection[CHOOSE i \in hits : \A j \in hits : i <= j])

\* C9: after a notification with the flag released, no host deletion and no
\* text edit, selectedNodeId is the owner of the first selected element that
\* resolves to a managed element, and null when none does
C9_SelectionFollows == Plain => selectedNodeId = FirstOwner(ev.scene, ev.selection)

\* two shapes of different nodes were selected and the first one's node won
C9_Witness ==
    /\ Plain
    /\ Len(ev.selection) = 2
    /\ OwnerOfSelected(ev.scene, ev.selection[1]) # Null
    /\ OwnerOfSelected(ev.scene, ev.selection[2]) # Null
    /\ OwnerOfSelected(ev.scene, ev.selection[1])
           # OwnerOfSelected(ev.scene, ev.selection[2])
    /\ ev.before.selectedNodeId # OwnerOfSelected(ev.scene, ev.selection[1])
    /\ selectedNodeId = OwnerOfSelected(ev.scene, ev.selection[1])

\* the label the store keeps for a text: '' for a blank one, else the text
StoredLabel(text) == IF \A i \in DOMAIN text : text[i] = " " THEN EmptyLabel ELSE text

\* C10: after a notification with the flag released, no host deletion and no
\* text edit, the label of the live owner of every label text (tagged label,
\* or bound to a tagged container) is that text, '' if it is blank; no other
\* label changes
C10_LabelFollows ==
    Plain =>
        /\ \A i \in DOMAIN ev.scene :
              LET owner == resolveLabelNodeId(ev.scene[i], ev.scene)
              IN (owner # Null /\ Has(nodes, owner)) =>
                     Get(nodes, owner).label = StoredLabel(ev.scene[i].text)
        /\ \A n \in Keys(nodes) :
              (/\ Has(ev.before.nodes, n)
               /\ ~\E i \in DOMAIN ev.scene :
                      resolveLabelNodeId(ev.scene[i], ev.scene) = n)
                  => Get(nodes, n).label = Get(ev.before.nodes, n).label

\* the nodes of the store that are soft-deleted
SoftDeleted == Keys(deletedNodes) \ Keys(nodes)

\* the element is a shape of node n, a text bound to n's shape or a connector
\* bound to n's shape
BelongsTo(element, n) ==
    \/ resolveManagedShapeNodeId(element) = n
    \/ element.type = "text" /\ element.containerId = ShapeId(n)
    \/ element.startBinding = ShapeId(n)
    \/ element.endBinding = ShapeId(n)

ChildrenOf(id) ==
    IF Has(nodes, id) THEN Get(nodes, id).childrenIds
    ELSE IF Has(deletedNodes, id) THEN Get(deletedNodes, id).childrenIds
    ELSE <<>>

\* the least set that holds `set` and the childrenIds of every member
RECURSIVE ReachVia(_)
ReachVia(set) ==
    LET more == set \cup UNION {{ChildrenOf(p)[i] : i \in DOMAIN ChildrenOf(p)} : p \in set}
    IN IF more = set THEN set ELSE ReachVia(more)

\* the ids reachable from rootIds through childrenIds
Reachable == ReachVia({rootIds[i] : i \in DOMAIN rootIds})

\* C12: the key sets of nodes and deletedNodes are disjoint, and every id
\* reachable from rootIds through childrenIds is a key of exactly one of them
C12_MapsPartition ==
    /\ Keys(nodes) \cap Keys(deletedNodes) = {}
    /\ \A id \in Reachable : (id \in Keys(nodes)) # (id \in Keys(deletedNodes))

\* a part of a deleted subtree was restored: a deleted node lists a live
\* child, and a live root has been reached by an undo or a restore before
C12_Witness ==
    /\ JustChanged
    /\ lastChange.op = "restoreNode"
    /\ Reachable # {}
    /\ \E d \in Keys(deletedNodes) :
          \E c \in Keys(nodes) : Includes(Get(deletedNodes, d).childrenIds, c)

\* C13: every live node with a non-null parentId has a live parent and is
\* listed exactly once in that parent's childrenIds
C13_ChildListedOnce ==
    \A i \in DOMAIN nodes :
        nodes[i].parentId # Null =>
            /\ Has(nodes, nodes[i].parentId)
            /\ Cardinality({k \in DOMAIN Get(nodes, nodes[i].parentId).childrenIds :
                   Get(nodes, nodes[i].parentId).childrenIds[k] = nodes[i].id}) = 1

\* C14: a live node has no parent exactly if rootIds lists it, and rootIds
\* lists live nodes only, each once
C14_RootsAreParentless ==
    /\ \A i \in DOMAIN nodes : (nodes[i].parentId = Null) <=> Includes(rootIds, nodes[i].id)
    /\ \A i \in DOMAIN rootIds : Has(nodes, rootIds[i])
    /\ \A i, j \in DOMAIN rootIds : rootIds[i] = rootIds[j] => i = j

\* a deleted root was restored next to a root created after it, and is listed last
C14_Witness ==
    /\ JustChanged
    /\ lastChange.op = "restoreNode"
    /\ Len(rootIds) >= 2
    /\ Last(rootIds) = lastChange.id
    /\ rootIds[1] > lastChange.id

(***************************************************************************)
(* The history stacks                                                      *)
(***************************************************************************)
PushingOps == MutatingOps \cup {"redo"}

\* the step is a store call that changed the store
Changed(op) == lastOp'.ok /\ lastOp'.op = op /\ opCount' = opCount + 1

\* C15: the undo stack never holds more than MAX_HISTORY_ENTRIES snapshots; a
\* committing operation or a redo appends the state it found and, on a full
\* stack, drops the oldest snapshot and keeps the others in order; an undo
\* takes the newest snapshot off, so no more than the last
\* MAX_HISTORY_ENTRIES changes can be undone
C15_BoundedUndoStack ==
    [][/\ Len(past') <= MAX_HISTORY_ENTRIES
       /\ \A op \in PushingOps :
             Changed(op) =>
                 past' = IF Len(past) = MAX_HISTORY_ENTRIES
                         THEN Tail(past) \o <<Observable>>
                         ELSE past \o <<Observable>>
       /\ Changed("undo") => past' = SubSeq(past, 1, Len(past) - 1)]_vars

\* a committing operation found the stack full and the oldest snapshot, the
\* empty store, was dropped
C15_Witness ==
    /\ JustChanged
    /\ lastChange.op \in MutatingOps
    /\ Len(past) = MAX_HISTORY_ENTRIES
    /\ past[1] # EmptySnapshot
    /\ past[1].rootIds = <<1>>

\* C16: a committing operation leaves the redo stack empty; the redo stack
\* grows only by an undo, which appends the state it found; a redo called
\* when the last change was a committing operation changes nothing
C16_RedoStack ==
    [][/\ \A op \in MutatingOps : Changed(op) => future' = <<>>
       /\ Len(future') > Len(future) =>
             /\ Changed("undo")
             /\ future' = future \o <<Observable>>
       /\ (lastOp'.op = "redo" /\ lastChange.op \in MutatingOps) =>
             /\ ~lastOp'.ok
             /\ storeVars' = storeVars]_vars

\* an operation committed after an undo, and the redo after it did nothing
C16_Witness ==
    /\ lastOp.op = "redo"
    /\ ~lastOp.ok
    /\ lastChange.op \in MutatingOps
    /\ prevChange.op = "undo"
    /\ past # <<>>

\* the call of the step is one its definition makes a no-op, judged by the
\* state the call found
NoOpCall ==
    LET call == lastOp'
    IN \/ call.op = "addChild" /\ ~Has(nodes, call.id)
       \/ call.op = "updateLabel"
            /\ (~Has(nodes, call.id) \/ Get(nodes, call.id).label = call.arg)
       \/ call.op = "deleteNode" /\ ~Has(nodes, call.id)
       \/ call.op = "restoreNode" /\ ~Has(deletedNodes, call.id)
       \/ call.op = "toggleCollapse"
            /\ (~Has(nodes, call.id) \/ Get(nodes, call.id).childrenIds = <<>>)
       \/ call.op = "setNodeType"
            /\ (~Has(nodes, call.id) \/ Get(nodes, call.id).type = call.arg)
       \/ call.op = "setNodePosition"
            /\ (~Has(nodes, call.id) \/ Get(nodes, call.id).position = call.arg)
       \/ call.op = "undo" /\ past = <<>>
       \/ call.op = "redo" /\ future = <<>>

\* C17: a store call that its definition makes a no-op leaves rootIds, nodes,
\* deletedNodes, selectedNodeId, focusBranchId and both history stacks as
\* they were
C17_NoOpChangesNothing ==
    [][NoOpCall => (storeVars' = storeVars /\ ~lastOp'.ok)]_vars

\* a label was set to the value it has, in a store with both stacks filled
C17_Witness ==
    /\ lastOp.op = "updateLabel"
    /\ ~lastOp.ok
    /\ Has(nodes, lastOp.id)
    /\ Get(nodes, lastOp.id).label = lastOp.arg
    /\ past # <<>>
    /\ future # <<>>

(***************************************************************************)
(* Stale references in a notification                                      *)
(***************************************************************************)
\* the owner a managed element of the scene names: the tag of a shape, of a
\* text or of a text's container
OwnerIn(scene, element) ==
    IF isManagedElement(element)
    THEN element.customData.mindmapNodeId
    ELSE resolveLabelNodeId(element, scene)

\* the owners named in the notified scene that are no key of nodes
StaleOwners ==
    {n \in {OwnerIn(ev.scene, ev.scene[i]) : i \in DOMAIN ev.scene} \ {Null} :
        ~Has(ev.before.nodes, n)}

\* C18: a notification handled with the flag released makes no store call
\* for an owner id that is no key of nodes: no label, position or deletion is
\* applied for it, the maps do not change for it, and selectNode is never
\* called with an id that is not live
C18_StaleOwnerIgnored ==
    Handled =>
        /\ \A i \in DOMAIN ev.calls : ev.calls[i].id \notin StaleOwners
        /\ \A n \in StaleOwners :
              /\ ~Has(nodes, n)
              /\ Has(deletedNodes, n) = Has(ev.before.deletedNodes, n)
        /\ selectedNodeId # Null =>
              \/ Has(nodes, selectedNodeId)
              \/ selectedNodeId = ev.before.selectedNodeId

\* C19: addSibling called with a forest root returns the id it was called
\* with and leaves the store and both history stacks unchanged; no node is
\* created
C19_NoSiblingForRoot ==
    [][(/\ lastOp'.op = "addSibling"
        /\ Has(nodes, lastOp'.id)
        /\ Get(nodes, lastOp'.id).parentId = Null)
       => /\ lastOp'.arg = lastOp'.id
          /\ storeVars' = storeVars
          /\ nextId' = nextId]_vars

\* addSibling was called with a root that has a child, in a store with both
\* stacks filled
C19_Witness ==
    /\ lastOp.op = "addSibling"
    /\ ~lastOp.ok
    /\ Includes(rootIds, lastOp.id)
    /\ lastOp.arg = lastOp.id
    /\ Get(nodes, lastOp.id).childrenIds # <<>>
    /\ past # <<>>
    /\ future # <<>>

(***************************************************************************)
(* The shortcut policy                                                     *)
(***************************************************************************)
\* the table of the policy
ShortcutTable ==
    [key \in {"Tab", "Enter", "Delete", "Backspace", " ", "Escape", "F2"} |->
        IF key = "Tab" THEN "addChild"
        ELSE IF key = "Enter" THEN "addSibling"
        ELSE IF key = " " THEN "toggleCollapse"
        ELSE IF key = "Escape" THEN "deselect"
        ELSE IF key = "F2" THEN "startEdit"
        ELSE "deleteNode"]

\* C20: every call of the shortcut policy returns null when isEditing,
\* hasModifier or isEditableTarget is set or hasSelection is not, whatever the
\* key; otherwise the table's action for a key of the table and null for any
\* other key; calls with the same input return the same
C20_ShortcutTable ==
    /\ \A i \in DOMAIN shortcutResults :
          shortcutResults[i] =
              IF \/ shortcutInput.isEditing
                 \/ shortcutInput.hasModifier
                 \/ shortcutInput.isEditableTarget
                 \/ ~shortcutInput.hasSelection
              THEN "null"
              ELSE IF shortcutInput.key \in DOMAIN ShortcutTable
                   THEN ShortcutTable[shortcutInput.key]
                   ELSE "null"
    /\ \A i, j \in DOMAIN shortcutResults : shortcutResults[i] = shortcutResults[j]

\* the policy was called twice with Backspace and a selection, and nothing
\* that blocks the shortcut
C20_Witness ==
    /\ Len(shortcutResults) = MaxCalls
    /\ shortcutInput.key = "Backspace"
    /\ shortcutResults[1] = "deleteNode"

(***************************************************************************)
(* Claims about the layout engine and the projector (SpecEngine)           *)
(***************************************************************************)
\* the forest's nodes with every manual position removed
WithoutOverrides(m) == [i \in DOMAIN m |-> [m[i] EXCEPT !.position = NoPos]]

\* the positions the automatic pass computes for the forest
Computed == computeLayout(forest.rootIds, WithoutOverrides(forest.nodes))

Overridden(id) == Has(forest.nodes, id) /\ Get(forest.nodes, id).position # NoPos

\* C21: in every layout computeLayout returns, a placed node that carries a
\* manual position has exactly that position, whatever the automatic pass
\* computed for it, and every other placed node has the position it would have
\* if no node of the forest carried a manual position
C21_OverrideWins ==
    \A i \in DOMAIN layoutResults :
        /\ DOMAIN layoutResults[i] = DOMAIN Computed
        /\ \A id \in DOMAIN layoutResults[i] :
              layoutResults[i][id] =
                  IF Overridden(id) THEN Get(forest.nodes, id).position ELSE Computed[id]

\* a layout was computed in which a placed child with a sibling carries a manual
\* position that differs from the computed one
C21_Witness ==
    /\ layoutResults # <<>>
    /\ \E id \in DOMAIN layoutResults[1] :
          /\ Overridden(id)
          /\ Computed[id] # Get(forest.nodes, id).position
          /\ Get(forest.nodes, id).parentId \in DOMAIN layoutResults[1]
          /\ Len(Get(forest.nodes, Get(forest.nodes, id).parentId).childrenIds) > 1

\* the roots computeLayout lays out, in the order it lays them out
Roots == orderedRootIds(normalizeRootIds(forest.rootIds), forest.nodes)

\* C22, as stated: in every layout computeLayout returns, any two distinct
\* roots have different y-coordinates
C22_RootsDifferInY ==
    \A i \in DOMAIN layoutResults :
        \A a, b \in DOMAIN Roots :
            a # b => layoutResults[i][Roots[a]][2] # layoutResults[i][Roots[b]][2]

\* C22, amended: the automatic pass gives a later root a strictly greater y
\* than an earlier one, and in every layout computeLayout returns two distinct
\* roots that carry no manual position have different y-coordinates
C22_UnmovedRootsDifferInY ==
    \A i \in DOMAIN layoutResults :
        \A a, b \in DOMAIN Roots :
            a < b =>
                /\ Computed[Roots[a]][2] < Computed[Roots[b]][2]
                /\ (~Overridden(Roots[a]) /\ ~Overridden(Roots[b]))
                       => layoutResults[i][Roots[a]][2] < layoutResults[i][Roots[b]][2]

\* a layout was computed for two roots without manual positions, the first of
\* them a branch centred on its children
C22_Witness ==
    /\ layoutResults # <<>>
    /\ Len(Roots) > 1
    /\ ~Overridden(Roots[1])
    /\ ~Overridden(Roots[2])
    /\ Len(Get(forest.nodes, Roots[1]).childrenIds) > 1
    /\ layoutResults[1][Roots[1]][2] > 0

\* the live nodes one step below a set of nodes: the children its live, not
\* collapsed members list
Below(set) ==
    UNION {{Get(forest.nodes, id).childrenIds[k] :
                k \in DOMAIN Get(forest.nodes, id).childrenIds} :
           id \in {n \in set : Has(forest.nodes, n) /\ ~Get(forest.nodes, n).collapsed}}

RECURSIVE Shown(_)
Shown(set) == IF Below(set) \subseteq set THEN set ELSE Shown(set \cup Below(set))

\* the nodes reachable from the listed roots through non-collapsed ancestors
\* that are live and have a position in the layout of the forest
Projected ==
    {id \in Shown({forest.rootIds[k] : k \in DOMAIN forest.rootIds}) :
        /\ Has(forest.nodes, id)
        /\ id \in DOMAIN computeLayout(forest.rootIds, forest.nodes)}

HasPlacedParent(id) ==
    /\ Get(forest.nodes, id).parentId # Null
    /\ Has(forest.nodes, Get(forest.nodes, id).parentId)
    /\ Get(forest.nodes, id).parentId \in DOMAIN computeLayout(forest.rootIds, forest.nodes)

\* the number of descriptors of a list that a node owns in a role
Owned(D, id, role) ==
    Cardinality({k \in DOMAIN D : D[k].customData = makeCustomData(id, role)})

PushedBefore(k) ==
    LET earlier == SelectSeq(SubSeq(ev'.writes, 1, k - 1), LAMBDA w : w.kind = "push")
    IN IF earlier # <<>> THEN <<Last(earlier).projected>> ELSE ev.pushed

\* C24: every forward scene write projects something else than the forward
\* write before it did: no step makes a forward write whose projected elements
\* equal those of the last one
C24_PushOnlyOnChange ==
    [][\A k \in DOMAIN ev'.writes :
          ev'.writes[k].kind = "push" => <<ev'.writes[k].projected>> # PushedBefore(k)]_vars

(***************************************************************************)
(* Claims about single store calls (SpecStore)                             *)
(***************************************************************************)
\* every live node but the listed ones is the same after the step
OthersKept(ids) ==
    \A n \in Keys(nodes) \ ids : Has(nodes', n) /\ Get(nodes', n) = Get(nodes, n)

\* C25: addChild called with a live parent stores exactly one new live node,
\* under an id no node had, with that parent and no children, appends the id
\* to the parent's childrenIds, expands the parent, selects the new node and
\* returns its id; no other node, deletedNodes or rootIds changes
C25_AddChild ==
    [][(lastOp'.op = "addChild" /\ Has(nodes, lastOp'.id))
       => /\ lastOp'.ok
          /\ lastOp'.arg \notin Keys(nodes) \cup Keys(deletedNodes)
          /\ Keys(nodes') = Keys(nodes) \cup {lastOp'.arg}
          /\ Get(nodes', lastOp'.arg).parentId = lastOp'.id
          /\ Get(nodes', lastOp'.arg).childrenIds = <<>>
          /\ Get(nodes', lastOp'.id) =
                 [Get(nodes, lastOp'.id) EXCEPT
                     !.childrenIds = Get(nodes, lastOp'.id).childrenIds \o <<lastOp'.arg>>,
                     !.collapsed = FALSE]
          /\ OthersKept({lastOp'.id})
          /\ deletedNodes' = deletedNodes
          /\ rootIds' = rootIds
          /\ selectedNodeId' = lastOp'.arg]_vars

\* addChild was called with a collapsed parent that had a child, while another
\* node was selected
C25_Witness ==
    /\ JustChanged
    /\ lastOp.op = "addChild"
    /\ Get(before.nodes, lastOp.id).collapsed
    /\ Len(Get(nodes, lastOp.id).childrenIds) = 2
    /\ before.selectedNodeId # lastOp.id
    /\ selectedNodeId = lastOp.arg

\* C26: addSibling called with a live node that has a parent stores a new node
\* with the same parentId, puts its id right after the node's in the parent's
\* childrenIds, keeps the other entries in their order and selects the new node
C26_AddSibling ==
    [][(/\ lastOp'.op = "addSibling"
        /\ Has(nodes, lastOp'.id)
        /\ Get(nodes, lastOp'.id).parentId # Null)
       => /\ lastOp'.ok
          /\ lastOp'.arg \notin Keys(nodes)
          /\ Has(nodes', lastOp'.arg)
          /\ Get(nodes', lastOp'.arg).parentId = Get(nodes, lastOp'.id).parentId
          /\ Has(nodes, Get(nodes, lastOp'.id).parentId)
          /\ Has(nodes', Get(nodes, lastOp'.id).parentId)
          /\ Without(Get(nodes', Get(nodes, lastOp'.id).parentId).childrenIds, lastOp'.arg)
                = Get(nodes, Get(nodes, lastOp'.id).parentId).childrenIds
          /\ \E k \in DOMAIN Get(nodes', Get(nodes, lastOp'.id).parentId).childrenIds :
                /\ k > 1
                /\ Get(nodes', Get(nodes, lastOp'.id).parentId).childrenIds[k] = lastOp'.arg
                /\ Get(nodes', Get(nodes, lastOp'.id).parentId).childrenIds[k - 1] = lastOp'.id
          /\ selectedNodeId' = lastOp'.arg]_vars

\* C27: deleteNode called with a live node N: if the selected node is among the
\* nodes the call removes from nodes, the selection becomes N's parentId when N
\* has one, else the last entry of the rootIds that remain, else null; if it is
\* not among them, the selection stays
C27_DeleteMovesSelection ==
    [][(lastOp'.op = "deleteNode" /\ Has(nodes, lastOp'.id))
       => /\ lastOp'.ok
          /\ lastOp'.id \in Keys(nodes) \ Keys(nodes')
          /\ selectedNodeId' =
                 IF selectedNodeId \in Keys(nodes) \ Keys(nodes')
                 THEN IF Get(nodes, lastOp'.id).parentId # Null
                      THEN Get(nodes, lastOp'.id).parentId
                      ELSE IF rootIds' # <<>> THEN Last(rootIds') ELSE Null
                 ELSE selectedNodeId]_vars

\* a root was deleted while a node of its tree was selected and two other
\* roots remained: the later of them is selected
C27_Witness ==
    /\ JustChanged
    /\ lastOp.op = "deleteNode"
    /\ Includes(before.rootIds, lastOp.id)
    /\ Has(before.nodes, before.selectedNodeId)
    /\ Has(deletedNodes, before.selectedNodeId)
    /\ Len(rootIds) = 2
    /\ selectedNodeId = rootIds[2]

\* the store variables after the step, as a store state
StoreStateAfter ==
    [rootIds |-> rootIds', nodes |-> nodes', deletedNodes |-> deletedNodes',
     selectedNodeId |-> selectedNodeId', focusBranchId |-> focusBranchId',
     past |-> past', future |-> future']

\* C28: selectNode called with any id or null sets selectedNodeId to it and
\* leaves rootIds, nodes, deletedNodes and both history stacks as they were;
\* so an undo after it applies the snapshot it would have applied before it,
\* and a redo that was pending is still pending and applies the same snapshot
C28_SelectNodeFrame ==
    [][lastOp'.op = "selectNode"
       => /\ selectedNodeId' = lastOp'.id
          /\ UNCHANGED <<rootIds, nodes, deletedNodes, focusBranchId, past, future>>
          /\ snapshotFromState(undo(StoreStateAfter)) =
                 IF past = <<>>
                 THEN snapshotFromState(StoreStateAfter)
                 ELSE snapshotFromState(undo(StoreState))
          /\ undo(StoreStateAfter).past = undo(StoreState).past
          /\ future # <<>> =>
                /\ snapshotFromState(redo(StoreStateAfter)) = Last(future)
                /\ redo(StoreStateAfter).future = redo(StoreState).future]_vars

\* selectNode changed the selection to an id that names no live node while
\* both history stacks held snapshots
C28_Witness ==
    /\ lastOp.op = "selectNode"
    /\ lastOp.ok
    /\ selectedNodeId = lastOp.id
    /\ ~Has(nodes, selectedNodeId)
    /\ selectedNodeId # Null
    /\ past # <<>>
    /\ future # <<>>

(***************************************************************************)
(* Claims about the automatic pass of the layout (SpecEngine)              *)
(***************************************************************************)
\* the children of a placed node that computeLayout lays out below it
VisibleChildren(id) ==
    IF Get(forest.nodes, id).collapsed
    THEN <<>>
    ELSE SelectSeq(Get(forest.nodes, id).childrenIds, LAMBDA c : Has(forest.nodes, c))

\* C29: in every layout computeLayout returns, a placed node without a manual
\* position that has visible children has, as its y, the midpoint of the y the
\* automatic pass computed for its first visible child and the y it computed
\* for its last visible child
C29_BranchCentredOnChildren ==
    \A i \in DOMAIN layoutResults :
        \A id \in DOMAIN layoutResults[i] :
            (~Overridden(id) /\ VisibleChildren(id) # <<>>) =>
                2 * layoutResults[i][id][2] =
                    Computed[Head(VisibleChildren(id))][2]
                        + Computed[Last(VisibleChildren(id))][2]

\* the depth of a live node: the number of parentId links up to a parentless node
RECURSIVE Depth(_)
Depth(id) ==
    IF Get(forest.nodes, id).parentId = Null
    THEN 0
    ELSE 1 + Depth(Get(forest.nodes, id).parentId)

\* the visible leaves below a list of nodes, in depth-first order
RECURSIVE LeavesOf(_)
LeavesOf(ids) ==
    IF ids = <<>>
    THEN <<>>
    ELSE (IF VisibleChildren(Head(ids)) = <<>>
          THEN <<Head(ids)>>
          ELSE LeavesOf(VisibleChildren(Head(ids))))
         \o LeavesOf(Tail(ids))

\* the visible leaves of the forest in depth-first order across all roots
Leaves == LeavesOf(Roots)

\* C30, as stated: in every layout computeLayout returns, a placed node without
\* a manual position at depth d has x = d * HORIZONTAL_GAP, and the k-th visible
\* leaf in depth-first order (counted from 0) has y = k * (NODE_HEIGHT +
\* VERTICAL_GAP), so that no two visible leaves have the same y
C30_GridOfLeaves ==
    \A i \in DOMAIN layoutResults :
        /\ \A id \in DOMAIN layoutResults[i] :
              ~Overridden(id) =>
                  layoutResults[i][id][1] = Depth(id) * HORIZONTAL_GAP * Unit
        /\ \A k \in DOMAIN Leaves :
              layoutResults[i][Leaves[k]][2] = (k - 1) * (NODE_HEIGHT + VERTICAL_GAP) * Unit
        /\ \A k, l \in DOMAIN Leaves :
              k # l => layoutResults[i][Leaves[k]][2] # layoutResults[i][Leaves[l]][2]

\* C30, amended: the same for the leaves without a manual position: the k-th
\* visible leaf takes the k-th slot of the cursor whether or not the leaves
\* before it carry manual positions, and no two visible leaves without a manual
\* position have the same y
C30_GridOfUnmovedLeaves ==
    \A i \in DOMAIN layoutResults :
        /\ \A id \in DOMAIN layoutResults[i] :
              ~Overridden(id) =>
                  layoutResults[i][id][1] = Depth(id) * HORIZONTAL_GAP * Unit
        /\ \A k \in DOMAIN Leaves :
              ~Overridden(Leaves[k]) =>
                  layoutResults[i][Leaves[k]][2]
                      = (k - 1) * (NODE_HEIGHT + VERTICAL_GAP) * Unit
        /\ \A k, l \in DOMAIN Leaves :
              (k # l /\ ~Overridden(Leaves[k]) /\ ~Overridden(Leaves[l]))
                  => layoutResults[i][Leaves[k]][2] # layoutResults[i][Leaves[l]][2]
        /\ {Leaves[k] : k \in DOMAIN Leaves} \subseteq DOMAIN layoutResults[i]

\* a layout was computed for two roots with three visible leaves at two depths,
\* the first leaf carrying a manual position
C30_Witness ==
    /\ layoutResults # <<>>
    /\ Len(Roots) = 2
    /\ Len(Leaves) = 3
    /\ Overridden(Leaves[1])
    /\ \E k \in DOMAIN Leaves : Depth(Leaves[k]) = 1
    /\ layoutResults[1][Leaves[3]][2] = 2 * (NODE_HEIGHT + VERTICAL_GAP) * Unit

(***************************************************************************)
(* Claims about computeLayout as a function of its arguments (SpecLayout)  *)
(***************************************************************************)
\* the ids of the argument that name a parentless entry of the nodes record
ValidListed ==
    {forest.rootIds[k] : k \in DOMAIN forest.rootIds}
        \cap {id \in Keys(forest.nodes) : Get(forest.nodes, id).parentId = Null}

\* the parentless entries of the nodes record
Parentless == {id \in Keys(forest.nodes) : Get(forest.nodes, id).parentId = Null}

\* the entries of the nodes record one step below a set: the children that its
\* members list, if the member is not collapsed and the child has an entry
VisibleBelow(set) ==
    UNION {{c \in Keys(forest.nodes) : Includes(Get(forest.nodes, id).childrenIds, c)} :
           id \in {n \in set : Has(forest.nodes, n) /\ ~Get(forest.nodes, n).collapsed}}

RECURSIVE VisibleFrom(_)
VisibleFrom(set) ==
    IF VisibleBelow(set) \subseteq set THEN set ELSE VisibleFrom(set \cup VisibleBelow(set))

\* the nodes record with every collapsed entry turned into an expanded entry
\* that lists no children
CollapsedAsLeaves ==
    [i \in DOMAIN forest.nodes |->
        IF forest.nodes[i].collapsed
        THEN [forest.nodes[i] EXCEPT !.collapsed = FALSE, !.childrenIds = <<>>]
        ELSE forest.nodes[i]]

\* C31: every layout computeLayout returns for a list that names at least one
\* id positions exactly the entries of the nodes record reachable from a root
\* it lays out (a parentless entry) through listed children that have an
\* entry, without passing through a collapsed node: a collapsed node has the
\* positions of a node that lists no children (the layout is the one of the
\* record in which every collapsed entry lists none), and an entry that no
\* reached node lists has no position
C31_PositionsAreTheReachable ==
    \A i \in DOMAIN layoutResults :
        normalizeRootIds(forest.rootIds) # <<>> =>
            /\ DOMAIN layoutResults[i] = VisibleFrom(Parentless)
            /\ layoutResults[i] = computeLayout(forest.rootIds, CollapsedAsLeaves)

\* a layout was computed for a nodes record in which a positioned collapsed
\* node lists a child that has an entry, and a positioned node lists a child
\* that has none
C31_Witness ==
    /\ layoutResults # <<>>
    /\ \E id \in DOMAIN layoutResults[1] :
          /\ Get(forest.nodes, id).collapsed
          /\ \E c \in Keys(forest.nodes) :
                /\ Includes(Get(forest.nodes, id).childrenIds, c)
                /\ c \notin DOMAIN layoutResults[1]
    /\ \E id \in DOMAIN layoutResults[1] :
          \E k \in DOMAIN Get(forest.nodes, id).childrenIds :
              ~Has(forest.nodes, Get(forest.nodes, id).childrenIds[k])

\* a list without the later occurrences of an id
RECURSIVE FirstOccurrences(_)
FirstOccurrences(seq) ==
    IF seq = <<>>
    THEN <<>>
    ELSE LET rest == FirstOccurrences(SubSeq(seq, 1, Len(seq) - 1))
         IN IF Includes(rest, Last(seq)) THEN rest ELSE Append(rest, Last(seq))

\* the roots the claim names: the ids of the argument that name a parentless
\* entry, once each in the argument's order, then the other parentless entries
ClaimedRoots ==
    LET listed == FirstOccurrences(SelectSeq(forest.rootIds, LAMBDA id : id \in ValidListed))
        others == SelectSeq([i \in DOMAIN forest.nodes |-> forest.nodes[i].id],
                            LAMBDA id : id \in Parentless /\ ~Includes(listed, id))
    IN listed \o others

\* the claimed roots are the roots of a layout: each is positioned, the
\* automatic pass puts each at depth 0 and a later one strictly below an
\* earlier one, and nothing is positioned that is not reached from them
LaidOutFromClaimedRoots(layout) ==
    /\ \A k \in DOMAIN ClaimedRoots : ClaimedRoots[k] \in DOMAIN layout
    /\ DOMAIN layout = VisibleFrom({ClaimedRoots[k] : k \in DOMAIN ClaimedRoots})
    /\ DOMAIN Computed = DOMAIN layout
    /\ \A k \in DOMAIN ClaimedRoots : Computed[ClaimedRoots[k]][1] = 0
    /\ \A a, b \in DOMAIN ClaimedRoots :
          a < b => Computed[ClaimedRoots[a]][2] < Computed[ClaimedRoots[b]][2]

\* C32, as stated: for every list of root ids, the empty list included, every
\* layout computeLayout returns has as its roots, in this order, the ids of the
\* list that name a parentless entry of the nodes record, once each, and then
\* every other parentless entry; ids of the list that name no entry or an entry
\* with a parent are ignored
C32_RootsNormalized ==
    \A i \in DOMAIN layoutResults : LaidOutFromClaimedRoots(layoutResults[i])

\* the same for the lists that name at least one id
C32_RootsNormalizedForListedIds ==
    \A i \in DOMAIN layoutResults :
        normalizeRootIds(forest.rootIds) # <<>> => LaidOutFromClaimedRoots(layoutResults[i])

(***************************************************************************)
(* Claims about the backward path while a text is edited, and about the    *)
(* position sync (SpecEdit, SpecSync)                                      *)
(***************************************************************************)
\* the last step handled a notification with the flag released while the host
\* reported a text being edited
EditReported == ev.notified /\ ~ev.suppressed /\ ev.editingText # NoId

ReferencePosition(n) ==
    IF Get(ev.before.nodes, n).position # NoPos
    THEN Get(ev.before.nodes, n).position
    ELSE IF n \in DOMAIN Layout(ev.before) THEN Layout(ev.before)[n] ELSE NoPos

\* more than 0.5 apart in x or in y
MovedFrom(reference, element) ==
    \/ 2 * Abs(reference[1] - element.x) > Unit
    \/ 2 * Abs(reference[2] - element.y) > Unit

\* what the claim says of the shape elements of a notified scene
PositionsFollow ==
    \A i \in DOMAIN ev.scene :
        LET element == ev.scene[i]
            n == element.customData.mindmapNodeId
        IN (/\ element.customData # NoData
            /\ element.customData.role = "shape"
            /\ Has(ev.before.nodes, n)
            /\ ReferencePosition(n) # NoPos)
           => IF MovedFrom(ReferencePosition(n), element)
              THEN Get(nodes, n).position = <<element.x, element.y>>
              ELSE /\ Get(nodes, n).position = Get(ev.before.nodes, n).position
                   /\ \A k \in DOMAIN ev.calls :
                         ~(ev.calls[k].op = "setNodePosition" /\ ev.calls[k].id = n)

\* C34, as stated: after every notification handled with the flag released in
\* which no host deletion was mirrored, every node that is live and owns a
\* shape element of the notified scene has that element's (x, y) as its
\* position override if the element is more than 0.5 away, in x or in y, from
\* the node's override (without one, from its position in the last computed
\* layout), and else has the position it had, no setNodePosition call having
\* been made for it
C34_PositionSync == (Handled /\ RemovedOwners = {}) => PositionsFollow

\* no two shape elements of the notified scene carry the same owner
OneShapeEach ==
    \A i, j \in DOMAIN ev.scene :
        (/\ i # j
         /\ ev.scene[i].customData # NoData
         /\ ev.scene[j].customData # NoData
         /\ ev.scene[i].customData.role = "shape"
         /\ ev.scene[j].customData.role = "shape")
        => ev.scene[i].customData.mindmapNodeId # ev.scene[j].customData.mindmapNodeId

\* the same for the notifications that report no text-edit target and no
\* host-made copy of a shape
C34_PositionSyncOutsideEdit == (Plain /\ OneShapeEach) => PositionsFollow

(***************************************************************************)
(* Claims about the selection a forward push writes (SpecSync)             *)
(***************************************************************************)
\* the selected node is projected: it is live and the layout of the store,
\* which leaves out what a collapsed node hides, has a position for it
SelectedIsProjected ==
    /\ Has(nodes, selectedNodeId)
    /\ selectedNodeId \in DOMAIN Layout(StoreState)

\* the selection the claim names for a push of the store
ClaimedTarget ==
    IF selectedNodeId # Null /\ SelectedIsProjected
    THEN {ShapeId(selectedNodeId)}
    ELSE {}

Range(seq) == {seq[k] : k \in DOMAIN seq}

\* C35: the forward push of a step is made of the store the step ends with;
\* its write carries a selection exactly if the set of element ids the host
\* has selected when the push runs differs from the target, and the selection
\* it carries is the target: shape-<selectedNodeId> alone when a node is
\* selected and projected, no element otherwise
C35_PushSelection ==
    \A k \in DOMAIN ev.writes :
        ev.writes[k].kind = "push" =>
            /\ (ev.writes[k].appState # <<>>) <=> (Range(ev.writes[k].current) # ClaimedTarget)
            /\ ev.writes[k].appState # <<>> =>
                  /\ Range(ev.writes[k].appState[1]) = ClaimedTarget
                  /\ Len(ev.writes[k].appState[1]) = Cardinality(ClaimedTarget)
                  /\ hostSelection = ev.writes[k].appState[1]
            /\ ev.writes[k].appState = <<>> => hostSelection = ev.writes[k].current

\* a push carried the empty selection because the selected node is not
\* projected, while the host had an element selected
C35_Witness ==
    \E k \in DOMAIN ev.writes :
        /\ ev.writes[k].kind = "push"
        /\ selectedNodeId # Null
        /\ ~SelectedIsProjected
        /\ ev.writes[k].current # <<>>
        /\ ev.writes[k].appState = << <<>> >>

(***************************************************************************)
(* Claims about the store under well-behaved callers (SpecSelect)          *)
(***************************************************************************)
\* C36: when selectNode is only called with null or the id of a live node,
\* selectedNodeId is null or a key of nodes in every state the store
\* operations reach, after deleteNode has moved the selection to the deleted
\* node's parent and after undo and redo have restored one included
C36_SelectionIsLive == selectedNodeId = Null \/ Has(nodes, selectedNodeId)

(***************************************************************************)
(* Claims about deleteNode followed by restoreNode (SpecStore)             *)
(***************************************************************************)
\* the last two calls that changed the store were deleteNode(N) and, right
\* after it, restoreNode(N)
DeletedThenRestored ==
    /\ JustChanged
    /\ lastChange.op = "restoreNode"
    /\ prevChange.op = "deleteNode"
    /\ prevChange.id = lastChange.id

\* a list with id moved to its end
MovedToEnd(seq, id) == Append(Without(seq, id), id)

FreeformOnly(selection) ==
    /\ selection # <<>>
    /\ \A i \in DOMAIN selection :
          LET element == ById(hostElements, selection[i])
          IN /\ element # NoElement
             /\ element.customData = NoData
             /\ element.containerId = NoId
             /\ ~hasManagedElementId(element.id)

\* C38: a forward push leaves the host's selection as it found it when that
\* selection consists of unmanaged elements only, as after the user has
\* selected freeform content and the store's selectedNodeId was cleared for it
C38_FreeformSelectionKept ==
    \A k \in DOMAIN ev.writes :
        (ev.writes[k].kind = "push" /\ FreeformOnly(ev.writes[k].current))
            => hostSelection = ev.writes[k].current

(***************************************************************************)
(* Claims about host deletions (SpecSyncFair)                              *)
(***************************************************************************)
\* the last step was the host's delete action, and its notification, handled
\* or suppressed, showed the shape of the live, projected node n gone
HostDeleted(n) ==
    /\ ev.kind = "delete"
    /\ ev.notified
    /\ Has(ev.before.nodes, n)
    /\ n \in RemovedOwners

\* C39: no host deletion is lost: whenever the host's delete action takes
\* away the shape of a live, projected node and the host reports it, with the
\* suppression flag set or released, the node is eventually in deletedNodes
C39_NoDeletionLost ==
    \A n \in 1..MaxSceneNodes : HostDeleted(n) ~> Has(deletedNodes, n)

\* the same for the notifications handled with the flag released, which mirror
\* the deletion in the same step
C39_HandledDeletionMirrored ==
    \A n \in 1..MaxSceneNodes :
        (HostDeleted(n) /\ ~ev.suppressed) => Has(deletedNodes, n)

(***************************************************************************)
(* Claims about position overrides (SpecStill)                             *)
(***************************************************************************)
\* C40: a node gets a position override only because the user moved its
\* shape: as long as no managed shape is moved in the host, every node, live
\* or deleted, has no position override, whatever store calls, pushes, frames
\* and notifications have happened
C40_NoOverrideWithoutMove ==
    /\ \A i \in DOMAIN nodes : nodes[i].position = NoPos
    /\ \A i \in DOMAIN deletedNodes : deletedNodes[i].position = NoPos

=============================================================================
